---- MODULE Spec2Model ----
(***************************************************************************)
(* Helios rate limiter: the in-memory engines (token bucket, sliding       *)
(* window), the local manager and the gateway handlers, the shared-store   *)
(* scripts and the Redis manager.                                          *)
(*                                                                         *)
(* Time is counted in ticks of 1/TicksPerSec seconds.  Token counts are    *)
(* float64 in the source; here they are exact rationals, stored as the     *)
(* integer tokens * TokScale (floating-point rounding is not modelled).    *)
(***************************************************************************)
EXTENDS Integers, Sequences, FiniteSets, TLC

VARIABLES
    cfg,      \* the engine's limiter.Config
    clock,    \* time.Now(), in ticks
    state,    \* TokenBucketLimiter.state: key -> tokenBucket
    windows,  \* SlidingWindowLimiter.windows: key -> requests
    last,     \* the last call and the Result it returned
    granted,  \* history of the admits granted
    mu,       \* the engine's sync.Mutex: the goroutine holding it, or NoThread
    pc,       \* each goroutine's position in Allow
    loc,      \* each goroutine's arguments, local variables and returned Result
    rstore,   \* the Redis keys: decision key -> hash {tokens, last_refill} and its expiry
    limiters, \* RedisManager.limiters: "tenant:resource" -> Limiter
    configs,  \* RedisManager.configs: "tenant:resource" -> *Config
    nextId,   \* the number of Redis-backed limiters constructed so far
    rc,       \* the callers of the Redis-backed limiters: position and locals
    ncalls,   \* the number of calls made to the Redis-backed limiters
    evals,    \* the scripts the store has run at the present instant, in order
    rlast,    \* the last call a Redis-backed limiter returned from, and its Result
    mode,     \* cfg.Gateway.ConsistencyMode
    redisUp,  \* whether the Redis server answers
    resp,     \* the last HTTP response of the gateway
    metrics,  \* reqTotal, reqAllowed, reqDenied
    nreq,     \* the number of requests the gateway has passed to its limiter
    charged,  \* decision key -> the (tenant, resource, api key) triples charged to it
    etcd,     \* the etcd keys under /helios/tenants/: key -> stored value
    cresp,    \* the last request of the control plane and its HTTP response
    nctl,     \* the number of requests the control plane has served
    upd,      \* the updateTenant handlers in flight: position, request, record read, response
    ctxDone   \* whether the context the engine's callers pass is cancelled

thrVars == <<mu, pc, loc>>
redisVars == <<rstore, limiters, configs, nextId, rc, ncalls, evals, rlast>>
gwVars == <<mode, redisUp, resp, metrics, nreq, charged>>
ctlVars == <<etcd, cresp, nctl, upd>>

vars == <<cfg, clock, state, windows, last, granted, mu, pc, loc,
          rstore, limiters, configs, nextId, rc, ncalls, evals, rlast,
          mode, redisUp, resp, metrics, nreq, charged, etcd, cresp, nctl, upd, ctxDone>>

-----------------------------------------------------------------------------
(* Bounds of the model *)

TicksPerSec == 2
MaxTime == 4
MaxLimit == 2

Keys == {"k1", "k2"}
Threads == {"t1", "t2", "t3"}
ConcCosts == {1, 2}
Costs == 0..(MaxLimit + 1)

-----------------------------------------------------------------------------
(* limiter.Config and its defaults *)

AlgoTokenBucket == "token_bucket"
AlgoSlidingWindow == "sliding_window"

DefaultLimit == 100
DefaultWindowSec == 60

\* The policies the engines are built from: burst unset (0), below, at and
\* above the limit; the window is one second.
Configs ==
    {[Limit |-> l, Burst |-> b, Window |-> 1, Algorithm |-> AlgoTokenBucket] :
        l \in {1, MaxLimit}, b \in {0, MaxLimit - 1, MaxLimit, MaxLimit + 1}}
    \cup
    {[Limit |-> l, Burst |-> l, Window |-> 1, Algorithm |-> AlgoSlidingWindow] :
        l \in {1, MaxLimit}}

EffWindow(c) == IF c.Window <= 0 THEN DefaultWindowSec ELSE c.Window
EffLimit(c) == IF c.Limit <= 0 THEN DefaultLimit ELSE c.Limit
EffBurst(c) == IF c.Burst <= 0 THEN EffLimit(c) ELSE c.Burst

WinTicks(c) == EffWindow(c) * TicksPerSec

-----------------------------------------------------------------------------
(* Arithmetic *)

Min(a, b) == IF a < b THEN a ELSE b
maxInt64(a, b) == IF a > b THEN a ELSE b

\* Go's conversion of a float64 quotient to an integer: truncation toward zero.
TruncDiv(a, b) == IF a >= 0 THEN a \div b ELSE -((-a) \div b)

CeilDiv(a, b) == -((-a) \div b)

\* Every window of the model, in ticks, divides TokScale, so that a refill of
\* elapsed * limit / window tokens is an integer number of 1/TokScale tokens.
TokScale == DefaultWindowSec * TicksPerSec

\* tokens added per tick, in 1/TokScale tokens
RefillPerTick(c) == (EffLimit(c) * TokScale) \div WinTicks(c)

\* (num / TokScale) tokens divided by refillPerSec, truncated to whole seconds
SecondsToRefill(c, num) == TruncDiv(num * EffWindow(c), EffLimit(c) * TokScale)

-----------------------------------------------------------------------------
(* Maps with a dynamic domain (a Go map) *)

\* mutant: the assignment replaces the map
PutAlone(m, k, v) == (k :> v)

Put(m, k, v) == (k :> v) @@ m
EmptyMap == <<>>

NoCall == [op |-> "none"]

\* The history of admits: time -> total cost admitted at that time (kept in
\* the single-key behaviours only).
NoHistory == [on |-> FALSE, at |-> EmptyMap]
EmptyHistory == [on |-> TRUE, at |-> EmptyMap]

At(g, t) == IF t \in DOMAIN g.at THEN g.at[t] ELSE 0

Grant(g, key, now, cost, allowed) ==
    IF g.on /\ allowed /\ cost > 0
    THEN [g EXCEPT !.at = Put(g.at, now, At(g, now) + cost)]
    ELSE g

-----------------------------------------------------------------------------
(* TokenBucketLimiter *)

\* mutant: a new bucket starts empty
NewBucketEmpty(c, now) == [tokens |-> 0, lastRefill |-> now]

NewBucket(c, now) == [tokens |-> EffBurst(c) * TokScale, lastRefill |-> now]

GetOrCreate(c, st, key, now) == IF key \in DOMAIN st THEN st[key] ELSE NewBucket(c, now)

\* mutant: the refill is not capped at the burst
RefillNoCap(c, b, now) ==
    [tokens |-> b.tokens + (now - b.lastRefill) * RefillPerTick(c),
     lastRefill |-> now]

\* mutant: the refill leaves lastRefill as it was
RefillKeepStamp(c, b, now) ==
    [tokens |-> Min(EffBurst(c) * TokScale,
                    b.tokens + (now - b.lastRefill) * RefillPerTick(c)),
     lastRefill |-> b.lastRefill]

\* bucket.tokens = min(burst, bucket.tokens + elapsed*refillPerSec); bucket.lastRefill = now
Refill(c, b, now) ==
    [tokens |-> Min(EffBurst(c) * TokScale,
                    b.tokens + (now - b.lastRefill) * RefillPerTick(c)),
     lastRefill |-> now]

\* mutant: any token left admits the request, whatever its cost
TBAllowedAnyToken(b, cost) == b.tokens > 0 \/ cost = 0

TBAllowed(b, cost) == b.tokens >= cost * TokScale

\* mutant: every admit is charged at least one token
ConsumeAtLeastOne(b, cost) ==
    IF b.tokens >= cost * TokScale
    THEN [b EXCEPT !.tokens = b.tokens - (IF cost > 1 THEN cost ELSE 1) * TokScale]
    ELSE b

Consume(b, cost) ==
    IF TBAllowed(b, cost) THEN [b EXCEPT !.tokens = b.tokens - cost * TokScale] ELSE b

\* The Result Allow builds from the bucket's tokens after the consumption
TBResultFrom(c, tokens, allowed, now, cost) ==
    LET secs == SecondsToRefill(c, cost * TokScale - tokens)
        resetTime == now + secs * TicksPerSec
    IN [Allowed |-> allowed,
        Remaining |-> TruncDiv(tokens, TokScale),
        Limit |-> EffLimit(c),
        ResetTime |-> resetTime,
        RetryAfterSeconds |-> IF allowed THEN 0 ELSE TruncDiv(resetTime - now, TicksPerSec)]

\* The Result of TokenBucketLimiter.Allow, from the refilled bucket b
TBAllowResult(c, b, now, cost) ==
    TBResultFrom(c, Consume(b, cost).tokens, TBAllowed(b, cost), now, cost)

\* Allow as a function of the engine's map: the new map and the Result
TBApply(c, st, key, cost, now) ==
    LET b == Refill(c, GetOrCreate(c, st, key, now), now)
    IN [st |-> Put(st, key, Consume(b, cost)), res |-> TBAllowResult(c, b, now, cost)]

TBQuotaResult(c, b, now) ==
    LET secs == SecondsToRefill(c, EffLimit(c) * TokScale - b.tokens)
    IN [Allowed |-> TRUE,
        Remaining |-> TruncDiv(b.tokens, TokScale),
        Limit |-> EffLimit(c),
        ResetTime |-> now + secs * TicksPerSec,
        RetryAfterSeconds |-> 0]

TBAllow(key, cost) ==
    /\ cfg.Algorithm = AlgoTokenBucket
    /\ LET now == clock
           app == TBApply(cfg, state, key, cost, now)
           res == app.res
       IN /\ state' = app.st
          /\ last' = [op |-> "Allow", key |-> key, cost |-> cost, now |-> now,
                      fresh |-> key \notin DOMAIN state, res |-> res]
          /\ granted' = Grant(granted, key, now, cost, res.Allowed)
    /\ UNCHANGED <<ctxDone, ctlVars, cfg, clock, windows, thrVars, redisVars, gwVars>>

\* GetQuota as a function of the engine's map: the new map and the Result
TBQuotaApply(c, st, key, now) ==
    LET b == Refill(c, GetOrCreate(c, st, key, now), now)
    IN [st |-> Put(st, key, b), res |-> TBQuotaResult(c, b, now)]

TBGetQuota(key) ==
    /\ cfg.Algorithm = AlgoTokenBucket
    /\ LET now == clock
           app == TBQuotaApply(cfg, state, key, now)
       IN /\ state' = app.st
          /\ last' = [op |-> "GetQuota", key |-> key, cost |-> 0, now |-> now,
                      fresh |-> key \notin DOMAIN state, res |-> app.res]
    /\ UNCHANGED <<ctxDone, ctlVars, cfg, clock, windows, granted, thrVars, redisVars, gwVars>>

-----------------------------------------------------------------------------
(* SlidingWindowLimiter *)

Copies(n, x) == [i \in 1..n |-> x]

\* the requests with reqTime.After(windowStart)
Purge(c, reqs, now) == SelectSeq(reqs, LAMBDA t : t > now - WinTicks(c))

GetOrCreateWindow(ws, key) == IF key \in DOMAIN ws THEN ws[key] ELSE <<>>

\* mutant: the check ignores the cost
SWExceedsNoCost(c, valid, cost) == Len(valid) >= EffLimit(c) /\ cost > 0

SWExceeds(c, valid, cost) == Len(valid) + cost > EffLimit(c)

\* The Result Allow builds from currentCount and the stored requests
SWResultFrom(c, reqs, count, allowed, now, cost) ==
    IF ~allowed
    THEN LET resetTime == IF Len(reqs) > 0 THEN reqs[1] + WinTicks(c)
                          ELSE now + WinTicks(c)
         IN [Allowed |-> FALSE,
             Remaining |-> maxInt64(0, EffLimit(c) - count),
             Limit |-> EffLimit(c),
             ResetTime |-> resetTime,
             RetryAfterSeconds |-> TruncDiv(resetTime - now, TicksPerSec)]
    ELSE [Allowed |-> TRUE,
          Remaining |-> EffLimit(c) - count - cost,
          Limit |-> EffLimit(c),
          ResetTime |-> now + WinTicks(c),
          RetryAfterSeconds |-> 0]

SWAllowResult(c, valid, now, cost) ==
    SWResultFrom(c, valid, Len(valid), ~SWExceeds(c, valid, cost), now, cost)

\* Allow as a function of the engine's map: the new map and the Result
SWApply(c, ws, key, cost, now) ==
    LET valid == Purge(c, GetOrCreateWindow(ws, key), now)
        res == SWAllowResult(c, valid, now, cost)
    IN [ws |-> Put(ws, key, IF res.Allowed THEN valid \o Copies(cost, now) ELSE valid),
        res |-> res]

SWAllow(key, cost) ==
    /\ cfg.Algorithm = AlgoSlidingWindow
    /\ LET now == clock
           app == SWApply(cfg, windows, key, cost, now)
           res == app.res
       IN /\ windows' = app.ws
          /\ last' = [op |-> "Allow", key |-> key, cost |-> cost, now |-> now,
                      fresh |-> key \notin DOMAIN windows, res |-> res]
          /\ granted' = Grant(granted, key, now, cost, res.Allowed)
    /\ UNCHANGED <<ctxDone, ctlVars, cfg, clock, state, thrVars, redisVars, gwVars>>

\* GetQuota as a function of the engine's map: the new map (a key without a
\* window gets none) and the Result
SWQuotaApply(c, ws, key, now) ==
    LET valid == Purge(c, GetOrCreateWindow(ws, key), now)
    IN [ws |-> IF key \in DOMAIN ws THEN Put(ws, key, valid) ELSE ws,
        res |-> [Allowed |-> TRUE,
                 Remaining |-> EffLimit(c) - Len(valid),
                 Limit |-> EffLimit(c),
                 ResetTime |-> now + WinTicks(c),
                 RetryAfterSeconds |-> 0]]

SWGetQuota(key) ==
    /\ cfg.Algorithm = AlgoSlidingWindow
    /\ LET now == clock
           app == SWQuotaApply(cfg, windows, key, now)
       IN /\ windows' = app.ws
          /\ last' = [op |-> "GetQuota", key |-> key, cost |-> 0, now |-> now,
                      fresh |-> key \notin DOMAIN windows, res |-> app.res]
    /\ UNCHANGED <<ctxDone, ctlVars, cfg, clock, state, granted, thrVars, redisVars, gwVars>>

-----------------------------------------------------------------------------
(* The clock: time.Now() never goes back *)

Tick ==
    /\ clock < MaxTime
    /\ clock' = clock + 1
    /\ UNCHANGED <<ctxDone, ctlVars, cfg, state, windows, last, granted, thrVars, redisVars, gwVars>>

-----------------------------------------------------------------------------
(* Goroutines calling Allow on one engine: the steps of Allow under t.mu *)

NoThread == "none"
NoLocals == [key |-> "", cost |-> 0, now |-> 0, count |-> 0, allowed |-> FALSE,
             res |-> NoCall]

ThreadsIdle ==
    /\ mu = NoThread
    /\ pc = [t \in Threads |-> "idle"]
    /\ loc = [t \in Threads |-> NoLocals]

\* mutant: Lock does not wait for the mutex
MuFreeNoWait == TRUE

\* t.mu.Lock() returns only when no goroutine holds the mutex
MuFree == mu = NoThread

\* a goroutine calls Allow(ctx, key, cost): t.mu.Lock()
Lock(t, key, cost) ==
    /\ pc[t] = "idle"
    /\ MuFree
    /\ mu' = t
    /\ pc' = [pc EXCEPT ![t] = IF cfg.Algorithm = AlgoSlidingWindow THEN "purge" ELSE "refill"]
    /\ loc' = [loc EXCEPT ![t] = [NoLocals EXCEPT !.key = key, !.cost = cost]]
    /\ UNCHANGED <<ctxDone, ctlVars, cfg, clock, state, windows, last, granted, redisVars, gwVars>>

\* now := time.Now(); the bucket is looked up or created, and refilled
TBRefillStep(t) ==
    /\ pc[t] = "refill"
    /\ LET now == clock
           key == loc[t].key
       IN /\ state' = Put(state, key, Refill(cfg, GetOrCreate(cfg, state, key, now), now))
          /\ loc' = [loc EXCEPT ![t].now = now]
    /\ pc' = [pc EXCEPT ![t] = "check"]
    /\ UNCHANGED <<ctxDone, ctlVars, cfg, clock, windows, last, granted, mu, redisVars, gwVars>>

\* allowed := bucket.tokens >= costFloat
TBCheckStep(t) ==
    /\ pc[t] = "check"
    /\ loc' = [loc EXCEPT ![t].allowed = TBAllowed(state[loc[t].key], loc[t].cost)]
    /\ pc' = [pc EXCEPT ![t] = "consume"]
    /\ UNCHANGED <<ctxDone, ctlVars, cfg, clock, state, windows, last, granted, mu, redisVars, gwVars>>

\* if allowed { bucket.tokens -= costFloat }, and the Result is built
TBConsumeStep(t) ==
    /\ pc[t] = "consume"
    /\ LET key == loc[t].key
           cost == loc[t].cost
           tokens == IF loc[t].allowed THEN state[key].tokens - cost * TokScale
                     ELSE state[key].tokens
       IN /\ state' = [state EXCEPT ![key].tokens = tokens]
          /\ loc' = [loc EXCEPT ![t].res =
                        TBResultFrom(cfg, tokens, loc[t].allowed, loc[t].now, cost)]
    /\ pc' = [pc EXCEPT ![t] = "unlock"]
    /\ UNCHANGED <<ctxDone, ctlVars, cfg, clock, windows, last, granted, mu, redisVars, gwVars>>

\* now := time.Now(); the window is looked up or created, and purged
SWPurgeStep(t) ==
    /\ pc[t] = "purge"
    /\ LET now == clock
           key == loc[t].key
       IN /\ windows' = Put(windows, key, Purge(cfg, GetOrCreateWindow(windows, key), now))
          /\ loc' = [loc EXCEPT ![t].now = now]
    /\ pc' = [pc EXCEPT ![t] = "count"]
    /\ UNCHANGED <<ctxDone, ctlVars, cfg, clock, state, last, granted, mu, redisVars, gwVars>>

\* currentCount := int64(len(w.requests)); currentCount+cost > limit
SWCountStep(t) ==
    /\ pc[t] = "count"
    /\ loc' = [loc EXCEPT ![t].count = Len(windows[loc[t].key]),
                          ![t].allowed = ~SWExceeds(cfg, windows[loc[t].key], loc[t].cost)]
    /\ pc' = [pc EXCEPT ![t] = "append"]
    /\ UNCHANGED <<ctxDone, ctlVars, cfg, clock, state, windows, last, granted, mu, redisVars, gwVars>>

\* the deny Result, or cost copies of now appended and the allow Result
SWAppendStep(t) ==
    /\ pc[t] = "append"
    /\ LET key == loc[t].key
           cost == loc[t].cost
       IN /\ windows' = IF loc[t].allowed
                        THEN [windows EXCEPT ![key] = @ \o Copies(cost, loc[t].now)]
                        ELSE windows
          /\ loc' = [loc EXCEPT ![t].res =
                        SWResultFrom(cfg, windows[key], loc[t].count, loc[t].allowed,
                                     loc[t].now, cost)]
    /\ pc' = [pc EXCEPT ![t] = "unlock"]
    /\ UNCHANGED <<ctxDone, ctlVars, cfg, clock, state, last, granted, mu, redisVars, gwVars>>

\* defer t.mu.Unlock(), and Allow returns
Unlock(t) ==
    /\ pc[t] = "unlock"
    /\ mu' = NoThread
    /\ pc' = [pc EXCEPT ![t] = "done"]
    /\ UNCHANGED <<ctxDone, ctlVars, cfg, clock, state, windows, last, granted, loc, redisVars, gwVars>>

NextConc ==
    \/ \E t \in Threads, c \in ConcCosts : Lock(t, "k1", c)
    \/ \E t \in Threads : TBRefillStep(t)
    \/ \E t \in Threads : TBCheckStep(t)
    \/ \E t \in Threads : TBConsumeStep(t)
    \/ \E t \in Threads : SWPurgeStep(t)
    \/ \E t \in Threads : SWCountStep(t)
    \/ \E t \in Threads : SWAppendStep(t)
    \/ \E t \in Threads : Unlock(t)
    \/ Tick

-----------------------------------------------------------------------------
(* The shared store (internal/store/redis.go) and the Redis-backed limiters *)

Callers == {"c1", "c2", "c3"}
Tenants == {"a"}
MaxCalls == 3
MaxUpdates == 2

TokenBucket == "token_bucket"
SlidingWindow == "sliding_window"

\* The Config GetLimiter installs when the pair has none
RedisDefaultConfig ==
    [Algorithm |-> TokenBucket, Limit |-> 100, WindowSeconds |-> 60, BurstLimit |-> 120]

\* The policies UpdateConfig is called with
RedisConfigs ==
    {[Algorithm |-> TokenBucket, Limit |-> l, WindowSeconds |-> 1, BurstLimit |-> l] :
        l \in {1, MaxLimit}}

\* fmt.Sprintf("%s:%s", tenantID, resource)
ManagerKey(tenantID, resource) == tenantID \o ":" \o resource

\* fmt.Sprintf("%s:%s:%s", tenant, resource, apiKey)
DecisionKey(tenant, resource, apiKey) == tenant \o ":" \o resource \o ":" \o apiKey

NoEngine == [id |-> 0, config |-> RedisDefaultConfig]
NotSeen == [old |-> FALSE, tokens |-> 0, limit |-> 0]
CallerIdle == [pc |-> "idle", engine |-> NoEngine, key |-> "", cost |-> 0, now |-> 0,
               saw |-> NotSeen, ret |-> <<FALSE, 0, 0>>]

RedisIdle ==
    /\ rstore = EmptyMap
    /\ limiters = EmptyMap
    /\ configs = EmptyMap
    /\ nextId = 0
    /\ rc = [c \in Callers |-> CallerIdle]
    /\ ncalls = 0
    /\ evals = <<>>
    /\ rlast = NoCall

\* A key is gone once its EXPIRE time has passed
Live(store, key, t) == key \in DOMAIN store /\ t < store[key].expireAt

\* mutant: the admit does not charge the cost
ChargeNothing(tokens, cost) == tokens

\* tokens = tokens - cost
Charge(tokens, cost) == tokens - cost * TokScale

\* The token-bucket script: the hash it writes and the reply {allowed, tokens, reset}
TokenBucketScript(store, key, now, limit, window, cost, burst, t) ==
    LET live == Live(store, key, t)
        tokens0 == IF live THEN store[key].tokens ELSE burst * TokScale
        last_refill == IF live THEN store[key].last_refill ELSE now
        tokens_to_add == ((now - last_refill) * limit * TokScale) \div (window * TicksPerSec)
        tokens == Min(tokens0 + tokens_to_add, burst * TokScale)
        expireAt == t + window * 2 * TicksPerSec
    IN IF tokens >= cost * TokScale
       THEN [hash |-> [tokens |-> Charge(tokens, cost), last_refill |-> now,
                       expireAt |-> expireAt],
             reply |-> <<TRUE, TruncDiv(Charge(tokens, cost), TokScale),
                         now + window * TicksPerSec>>]
       ELSE [hash |-> [tokens |-> tokens, last_refill |-> now, expireAt |-> expireAt],
             reply |-> <<FALSE, TruncDiv(tokens, TokScale),
                         now + CeilDiv((cost * TokScale - tokens) * window, limit * TokScale)
                                   * TicksPerSec>>]

\* RedisManager.GetLimiter: the Config a new limiter is built from (the default
\* Config when the pair has none)
GetLimiterConfig(cs, mk) == IF mk \in DOMAIN cs THEN cs[mk] ELSE RedisDefaultConfig

\* RedisManager.GetLimiter as a function of the manager's maps: the cached
\* limiter of the pair or, on a miss, a limiter constructed from the pair's
\* Config and stored in the cache
GetLimiterApply(ls, cs, id, mk) ==
    LET hit == mk \in DOMAIN ls
        config == GetLimiterConfig(cs, mk)
        engine == IF hit THEN ls[mk] ELSE [id |-> id + 1, config |-> config]
    IN [supported |-> config.Algorithm \in {TokenBucket, SlidingWindow},
        limiters |-> IF hit THEN ls ELSE Put(ls, mk, engine),
        configs |-> IF hit THEN cs ELSE Put(cs, mk, config),
        nextId |-> IF hit THEN id ELSE id + 1,
        engine |-> engine]

\* A caller gets the pair's limiter from the manager and calls Allow(ctx, key,
\* cost); TokenBucketAllow reads now := time.Now().UnixMilli()
RStart(c, tenant, resource, cost) ==
    /\ rc[c].pc = "idle"
    /\ ncalls < MaxCalls
    /\ ncalls' = ncalls + 1
    /\ LET mk == ManagerKey(tenant, resource)
           got == GetLimiterApply(limiters, configs, nextId, mk)
       IN /\ got.supported
          /\ limiters' = got.limiters
          /\ configs' = got.configs
          /\ nextId' = got.nextId
          /\ rc' = [rc EXCEPT ![c] = [CallerIdle EXCEPT
                        !.pc = "eval", !.engine = got.engine,
                        !.key = DecisionKey(tenant, resource, "test-key"),
                        !.cost = cost, !.now = clock]]
    /\ UNCHANGED <<ctxDone, ctlVars, cfg, clock, state, windows, last, granted, thrVars, gwVars, rstore, evals, rlast>>

\* c.redis.Eval(...): Redis runs the script as one indivisible step
REval(c) ==
    /\ rc[c].pc = "eval"
    /\ rc[c].engine.config.Algorithm = TokenBucket
    /\ LET k == rc[c].key
           config == rc[c].engine.config
           run == TokenBucketScript(rstore, k, rc[c].now, config.Limit,
                                    config.WindowSeconds, rc[c].cost, config.BurstLimit, clock)
           live == Live(rstore, k, clock)
           old == live /\ rstore[k].by # rc[c].engine.id
       IN /\ rstore' = Put(rstore, k, [tokens |-> run.hash.tokens,
                                       last_refill |-> run.hash.last_refill,
                                       expireAt |-> run.hash.expireAt,
                                       by |-> rc[c].engine.id,
                                       limit |-> config.Limit])
          /\ rc' = [rc EXCEPT ![c].pc = "ret", ![c].ret = run.reply,
                              ![c].saw = IF old
                                         THEN [old |-> TRUE, tokens |-> rstore[k].tokens,
                                               limit |-> rstore[k].limit]
                                         ELSE NotSeen]
          /\ evals' = Append(evals, [key |-> k, now |-> rc[c].now, cost |-> rc[c].cost,
                                     limit |-> config.Limit, burst |-> config.BurstLimit,
                                     fresh |-> ~live, allowed |-> run.reply[1]])
    /\ UNCHANGED <<ctxDone, ctlVars, cfg, clock, state, windows, last, granted, thrVars, gwVars, limiters, configs,
                   nextId, ncalls, rlast>>

\* The members ZADD writes: one per unit of cost, named now .. ':' .. i, each
\* with score now
Stamped(now, cost) == {<<now, i>> : i \in 1..cost}

\* ZADD key now (now .. ':' .. i) for i = 1, cost: a member the set already has
\* keeps its place, a new one is added
ZAdd(members, now, cost) == members \cup Stamped(now, cost)

\* ZREMRANGEBYSCORE key 0 window_start
ZRemRangeByScore(members, lo, hi) == {m \in members : ~(lo <= m[1] /\ m[1] <= hi)}

\* ZRANGE key 0 0 WITHSCORES: the lowest score of a set that has members
OldestScore(members) == CHOOSE s \in {m[1] : m \in members} : \A m \in members : s <= m[1]

\* The sliding-window script: the sorted set it leaves, the key's expiry, and
\* the reply {allowed, remaining, reset}
SlidingWindowScript(store, key, now, limit, window, cost, t) ==
    LET live == Live(store, key, t)
        members0 == IF live THEN store[key].members ELSE {}
        window_start == now - window * TicksPerSec
        kept == ZRemRangeByScore(members0, 0, window_start)
        current_count == Cardinality(kept)
        expire0 == IF live THEN store[key].expireAt ELSE 0
    IN IF current_count + cost <= limit
       THEN [members |-> ZAdd(kept, now, cost),
             expireAt |-> t + window * TicksPerSec,
             count |-> current_count,
             reply |-> <<TRUE, limit - current_count - cost, now + window * TicksPerSec>>]
       ELSE [members |-> kept,
             expireAt |-> expire0,
             count |-> current_count,
             reply |-> <<FALSE, IF limit - current_count > 0 THEN limit - current_count ELSE 0,
                         IF kept # {} THEN OldestScore(kept) + window * TicksPerSec
                                      ELSE now + window * TicksPerSec>>]

\* c.redis.Eval(...) of the sliding-window script, one indivisible step; a
\* sorted set left without members is a key that does not exist
RSWEval(c) ==
    /\ rc[c].pc = "eval"
    /\ rc[c].engine.config.Algorithm = SlidingWindow
    /\ LET k == rc[c].key
           config == rc[c].engine.config
           run == SlidingWindowScript(rstore, k, rc[c].now, config.Limit,
                                      config.WindowSeconds, rc[c].cost, clock)
       IN /\ rstore' = IF run.members = {}
                        THEN [x \in DOMAIN rstore \ {k} |-> rstore[x]]
                        ELSE Put(rstore, k, [members |-> run.members,
                                             expireAt |-> run.expireAt])
          /\ rc' = [rc EXCEPT ![c].pc = "ret", ![c].ret = run.reply]
          /\ evals' = Append(evals, [key |-> k, now |-> rc[c].now, cost |-> rc[c].cost,
                                     limit |-> config.Limit, allowed |-> run.reply[1],
                                     count |-> run.count,
                                     after |-> Cardinality(run.members)])
    /\ UNCHANGED <<ctxDone, ctlVars, cfg, clock, state, windows, last, granted, thrVars, gwVars, limiters, configs,
                   nextId, ncalls, rlast>>

\* RedisTokenBucket.Allow builds the Result from the reply
RReturn(c) ==
    /\ rc[c].pc = "ret"
    /\ LET allowed == rc[c].ret[1]
           resetTime == rc[c].ret[3]
           now == clock
       IN rlast' = [op |-> "allow", key |-> rc[c].key, cost |-> rc[c].cost,
                    now |-> rc[c].now, engine |-> rc[c].engine,
                    saw |-> rc[c].saw,
                    res |-> [Allowed |-> allowed,
                             Remaining |-> rc[c].ret[2],
                             Limit |-> rc[c].engine.config.Limit,
                             ResetTime |-> resetTime,
                             RetryAfterSeconds |->
                                 IF ~allowed /\ resetTime > now
                                 THEN TruncDiv(resetTime - now, TicksPerSec)
                                 ELSE 0]]
    /\ rc' = [rc EXCEPT ![c] = CallerIdle]
    /\ UNCHANGED <<ctxDone, ctlVars, cfg, clock, state, windows, last, granted, thrVars, gwVars, rstore, limiters,
                   configs, nextId, ncalls, evals>>

\* mutant: the update drops every cached limiter
UpdateConfigDropAll(ls, cs, mk, config) ==
    [configs |-> Put(cs, mk, config), limiters |-> EmptyMap]

\* RedisManager.UpdateConfig as a function of the manager's maps
UpdateConfigApply(ls, cs, mk, config) ==
    [configs |-> Put(cs, mk, config),
     limiters |-> [k \in DOMAIN ls \ {mk} |-> ls[k]]]

\* RedisManager.UpdateConfig: the pair's Config is replaced and its cached
\* limiter dropped
UpdateConfig(tenant, resource, config) ==
    /\ nextId < MaxUpdates + 1
    /\ LET mk == ManagerKey(tenant, resource)
           put == UpdateConfigApply(limiters, configs, mk, config)
       IN /\ configs' = put.configs
          /\ limiters' = put.limiters
    /\ UNCHANGED <<ctxDone, ctlVars, cfg, clock, state, windows, last, granted, thrVars, gwVars, rstore, nextId, rc,
                   ncalls, evals, rlast>>

\* Time passes for the callers and the store
RTick ==
    /\ clock < MaxTime
    /\ clock' = clock + 1
    /\ evals' = <<>>
    /\ UNCHANGED <<ctxDone, ctlVars, cfg, state, windows, last, granted, thrVars, gwVars, rstore, limiters, configs,
                   nextId, rc, ncalls, rlast>>

\* The policy of a pair is set before the pair's first call
InstallConfig(tenant, resource, config) ==
    /\ nextId = 0
    /\ UpdateConfig(tenant, resource, config)

\* The (tenant, resource) pairs whose limiters the manager is asked for
ManagerTenants == {"a", "b"}
ManagerResources == {"default", "b:default"}

\* A call of RedisManager.GetLimiter(tenantID, resource), and what it returned
GetLimiter(tenantID, resource) ==
    /\ ncalls < MaxCalls
    /\ ncalls' = ncalls + 1
    /\ LET mk == ManagerKey(tenantID, resource)
           got == GetLimiterApply(limiters, configs, nextId, mk)
       IN /\ got.supported
          /\ limiters' = got.limiters
          /\ configs' = got.configs
          /\ nextId' = got.nextId
          /\ rlast' = [op |-> "GetLimiter", key |-> mk, engine |-> got.engine,
                       config |-> got.engine.config,
                       before |-> limiters, ids |-> nextId]
    /\ UNCHANGED <<ctxDone, ctlVars, cfg, clock, state, windows, last, granted, thrVars, gwVars,
                   rstore, rc, evals>>

\* A call of RedisManager.UpdateConfig(tenantID, resource, config)
ManagerUpdateConfig(tenantID, resource, config) ==
    /\ ncalls < MaxCalls
    /\ ncalls' = ncalls + 1
    /\ LET mk == ManagerKey(tenantID, resource)
           put == UpdateConfigApply(limiters, configs, mk, config)
       IN /\ configs' = put.configs
          /\ limiters' = put.limiters
          /\ rlast' = [op |-> "UpdateConfig", key |-> mk, engine |-> NoEngine,
                       config |-> config, before |-> limiters, ids |-> nextId]
    /\ UNCHANGED <<ctxDone, ctlVars, cfg, clock, state, windows, last, granted, thrVars, gwVars,
                   rstore, nextId, rc, evals>>

\* One caller at a time, the policy changing at any moment
NextRedis ==
    \/ \E t \in Tenants, cost \in ConcCosts : RStart("c1", t, "default", cost)
    \/ REval("c1")
    \/ RReturn("c1")
    \/ \E t \in Tenants, config \in RedisConfigs : UpdateConfig(t, "default", config)
    \/ RTick

\* Concurrent callers under a policy that does not change
NextStrong ==
    \/ /\ ncalls < Cardinality(Callers)
       /\ \E c \in Callers, t \in Tenants, cost \in ConcCosts : RStart(c, t, "default", cost)
    \/ \E c \in Callers : REval(c)
    \/ \E c \in Callers : RReturn(c)
    \/ \E t \in Tenants, config \in RedisConfigs : InstallConfig(t, "default", config)
    \/ RTick

\* The sliding-window policies UpdateConfig is called with
RedisSWConfigs ==
    {[Algorithm |-> SlidingWindow, Limit |-> l, WindowSeconds |-> 1, BurstLimit |-> l] :
        l \in {1, MaxLimit}}

\* Concurrent callers of a pair whose sliding-window policy was installed before
\* its first call
NextRedisSW ==
    \/ /\ ncalls < Cardinality(Callers)
       /\ \E c \in Callers, t \in Tenants, cost \in ConcCosts :
              /\ ManagerKey(t, "default") \in DOMAIN configs
              /\ RStart(c, t, "default", cost)
    \/ \E c \in Callers : RSWEval(c)
    \/ \E c \in Callers : RReturn(c)
    \/ \E t \in Tenants, config \in RedisSWConfigs : InstallConfig(t, "default", config)
    \/ RTick

-----------------------------------------------------------------------------
(* The gateway (internal/gateway/server.go) *)

MaxRequests == 2

\* The requests sent to the gateway: a well-formed one, its variants in
\* tenant, resource and cost, and the malformed ones
BaseRequest ==
    [tenant |-> "a", header |-> "test-key", query |-> "", resource |-> "", cost |-> <<>>]
GWTenants == {"a", "a:b"}
GWResources == {"", "b:default"}
BigCost == <<"1", "0", "1">>
BadCosts == {<<"0">>, <<"x">>, <<"-", "1">>}
Requests ==
    {[BaseRequest EXCEPT !.tenant = t, !.resource = r, !.cost = c] :
        t \in GWTenants, r \in GWResources, c \in {<<>>, BigCost}}
    \cup {[BaseRequest EXCEPT !.tenant = ""]}
    \cup {[BaseRequest EXCEPT !.header = "", !.query = q] : q \in {"", "bad-key", "test-key"}}
    \cup {[BaseRequest EXCEPT !.cost = c] : c \in BadCosts}

\* The demo keys of handleAllow and handleQuota
ValidKeys == {"test-key", "demo-key", "admin-key"}

NoResponse == [op |-> "none"]
NoMetrics == [reqTotal |-> 0, reqAllowed |-> 0, reqDenied |-> 0]

GatewayIdle ==
    /\ mode = "fast"
    /\ redisUp = TRUE
    /\ resp = NoResponse
    /\ metrics = NoMetrics
    /\ nreq = 0
    /\ charged = EmptyMap

Digits == <<"0", "1", "2", "3", "4", "5", "6", "7", "8", "9">>
IsDigit(ch) == \E d \in DOMAIN Digits : Digits[d] = ch
DigitVal(ch) == (CHOOSE d \in DOMAIN Digits : Digits[d] = ch) - 1

RECURSIVE ParseDigits(_, _)
ParseDigits(str, acc) ==
    IF str = <<>> THEN acc ELSE ParseDigits(Tail(str), acc * 10 + DigitVal(Head(str)))

\* strconv.Atoi: an optional sign and decimal digits, anything else an error
Atoi(str) ==
    LET signed == str # <<>> /\ Head(str) \in {"+", "-"}
        body == IF signed THEN Tail(str) ELSE str
    IN IF body = <<>> \/ \E i \in DOMAIN body : ~IsDigit(body[i])
       THEN [err |-> TRUE, n |-> 0]
       ELSE [err |-> FALSE,
             n |-> IF signed /\ Head(str) = "-"
                   THEN 0 - ParseDigits(body, 0)
                   ELSE ParseDigits(body, 0)]

\* apiKey := c.GetHeader("X-API-Key"); if apiKey == "" { apiKey = c.Query("api_key") }
ApiKeyOf(header, query) == IF header = "" THEN query ELSE header

\* resource := c.Query("resource"); if resource == "" { resource = "default" }
ResourceOf(resource) == IF resource = "" THEN "default" ELSE resource

\* mutant: the limiter is asked for the quota of the key before the request is rejected
RejectAfterLookup(op, status, error) ==
    /\ resp' = [op |-> op, status |-> status, error |-> error]
    /\ state' = TBApply(cfg, state, DecisionKey("", "default", ""), 0, clock).st
    /\ UNCHANGED <<ctxDone, ctlVars, cfg, clock, windows, last, granted, thrVars, redisVars,
                   mode, redisUp, metrics, nreq, charged>>

\* The request is answered with an error before it reaches the limiter
Reject(op, status, error) ==
    /\ resp' = [op |-> op, status |-> status, error |-> error]
    /\ UNCHANGED <<ctxDone, ctlVars, cfg, clock, state, windows, last, granted, thrVars, redisVars,
                   mode, redisUp, metrics, nreq, charged>>

\* int(time.Until(res.ResetTime).Seconds()), not below 0; the clock read by
\* time.Until is the one the limiter read, or a later one
RetryAfterUntil(resetTime, now, late) ==
    LET d == resetTime - now
    IN IF d <= 0 THEN 0
       ELSE IF late /\ d % TicksPerSec = 0 THEN d \div TicksPerSec - 1
       ELSE d \div TicksPerSec

\* ResetTime.Unix()
Unix(t) == t \div TicksPerSec

Charged(ch, key, tenant, resource, apiKey) ==
    Put(ch, key, (IF key \in DOMAIN ch THEN ch[key] ELSE {}) \cup {<<tenant, resource, apiKey>>})

\* mutant: the request is counted as allowed and as denied
CountDecisionBoth(m, allowed) ==
    [m EXCEPT !.reqAllowed = @ + 1, !.reqDenied = @ + 1]

\* if res.Allowed { atomic.AddUint64(&reqAllowed, 1) } else { atomic.AddUint64(&reqDenied, 1) }
CountDecision(m, allowed) ==
    [m EXCEPT !.reqAllowed = @ + (IF allowed THEN 1 ELSE 0),
              !.reqDenied = @ + (IF allowed THEN 0 ELSE 1)]

\* atomic.AddUint64(&reqTotal, 1)
CountRequest(m) == [m EXCEPT !.reqTotal = @ + 1]

handleAllow(tenant, header, query, resourceQ, costStr, late) ==
    LET apiKey == ApiKeyOf(header, query)
        resource == ResourceOf(resourceQ)
        parsed == Atoi(costStr)
        cost == IF costStr = <<>> THEN 1 ELSE parsed.n
        key == DecisionKey(tenant, resource, apiKey)
        app == TBApply(cfg, state, key, cost, clock)
        res == app.res
    IN IF tenant = "" THEN Reject("allow", 400, "tenant parameter is required")
       ELSE IF apiKey = "" THEN Reject("allow", 401, "API key required")
       ELSE IF apiKey \notin ValidKeys THEN Reject("allow", 401, "Invalid API key")
       ELSE IF costStr # <<>> /\ (parsed.err \/ parsed.n <= 0)
       THEN Reject("allow", 400, "invalid cost parameter")
       ELSE /\ nreq < MaxRequests
            /\ nreq' = nreq + 1
            /\ state' = app.st
            /\ metrics' = CountDecision(CountRequest(metrics), res.Allowed)
            /\ charged' = Charged(charged, key, tenant, resource, apiKey)
            /\ resp' = IF res.Allowed
                       THEN [op |-> "allow", status |-> 200, allowed |-> TRUE,
                             remaining |-> res.Remaining, limit |-> res.Limit,
                             reset_time |-> Unix(res.ResetTime), retry_after_seconds |-> 0,
                             error |-> "", storeUp |-> redisUp]
                       ELSE [op |-> "allow", status |-> 429, allowed |-> FALSE,
                             remaining |-> res.Remaining, limit |-> res.Limit,
                             reset_time |-> Unix(res.ResetTime),
                             retry_after_seconds |->
                                 RetryAfterUntil(res.ResetTime, clock, late),
                             error |-> "rate limit exceeded", storeUp |-> redisUp]
            /\ UNCHANGED <<ctxDone, ctlVars, cfg, clock, windows, last, granted, thrVars, redisVars,
                           mode, redisUp>>

handleQuota(tenant, header, query, resourceQ) ==
    LET apiKey == ApiKeyOf(header, query)
        resource == ResourceOf(resourceQ)
        id == DecisionKey(tenant, resource, apiKey)
        app == TBApply(cfg, state, id, 0, clock)
        res == app.res
    IN IF tenant = "" THEN Reject("quota", 400, "tenant parameter is required")
       ELSE IF apiKey = "" THEN Reject("quota", 401, "API key required")
       ELSE IF apiKey \notin ValidKeys THEN Reject("quota", 401, "Invalid API key")
       ELSE /\ nreq < MaxRequests
            /\ nreq' = nreq + 1
            /\ state' = app.st
            /\ charged' = Charged(charged, id, tenant, resource, apiKey)
            /\ resp' = [op |-> "quota", status |-> 200, remaining |-> res.Remaining,
                        limit |-> res.Limit, reset_time |-> Unix(res.ResetTime),
                        storeUp |-> redisUp]
            /\ UNCHANGED <<ctxDone, ctlVars, cfg, clock, windows, last, granted, thrVars, redisVars,
                           mode, redisUp, metrics>>

\* The status handleHealth computes: the Redis ping is made only when NewServer
\* created the client (strong mode)
HealthStatus(m, up) == IF m = "strong" /\ ~up THEN "unhealthy" ELSE "healthy"

\* The Redis check is made only when NewServer created the client (strong mode)
handleHealth ==
    /\ resp' = [op |-> "health", status |-> 200, health |-> HealthStatus(mode, redisUp),
                storeUp |-> redisUp]
    /\ UNCHANGED <<ctxDone, ctlVars, cfg, clock, state, windows, last, granted, thrVars, redisVars,
                   mode, redisUp, metrics, nreq, charged>>

\* The Redis server of a strong-mode gateway becomes unreachable, or reachable
\* again
RedisToggle ==
    /\ mode = "strong"
    /\ redisUp' = ~redisUp
    /\ UNCHANGED <<ctxDone, ctlVars, cfg, clock, state, windows, last, granted, thrVars, redisVars,
                   mode, resp, metrics, nreq, charged>>

\* Time passes; the gateway is followed for one second
GWTick ==
    /\ clock < TicksPerSec
    /\ Tick

NextGW ==
    \/ \E r \in Requests, late \in BOOLEAN :
          handleAllow(r.tenant, r.header, r.query, r.resource, r.cost, late)
    \/ \E r \in Requests : handleQuota(r.tenant, r.header, r.query, r.resource)
    \/ handleHealth
    \/ RedisToggle
    \/ GWTick

\* The goroutines serving GET /allow at the same time, and the one serving
\* GET /metrics
GWHandlers == {"t1", "t2"}
Scraper == "t3"

\* handleAllow up to atomic.AddUint64(&reqTotal, 1): the request is validated
\* and, if it passes, counted
AllowCount(t, tenant, header, query, resourceQ, costStr) ==
    LET apiKey == ApiKeyOf(header, query)
        resource == ResourceOf(resourceQ)
        parsed == Atoi(costStr)
        cost == IF costStr = <<>> THEN 1 ELSE parsed.n
        key == DecisionKey(tenant, resource, apiKey)
    IN /\ pc[t] = "idle"
       /\ IF tenant = "" THEN Reject("allow", 400, "tenant parameter is required")
          ELSE IF apiKey = "" THEN Reject("allow", 401, "API key required")
          ELSE IF apiKey \notin ValidKeys THEN Reject("allow", 401, "Invalid API key")
          ELSE IF costStr # <<>> /\ (parsed.err \/ parsed.n <= 0)
          THEN Reject("allow", 400, "invalid cost parameter")
          ELSE /\ nreq < MaxRequests
               /\ nreq' = nreq + 1
               /\ metrics' = CountRequest(metrics)
               /\ pc' = [pc EXCEPT ![t] = "counted"]
               /\ loc' = [loc EXCEPT ![t] = [NoLocals EXCEPT !.key = key, !.cost = cost]]
               /\ charged' = Charged(charged, key, tenant, resource, apiKey)
               /\ UNCHANGED <<ctxDone, ctlVars, cfg, clock, state, windows, last, granted, mu,
                              redisVars, mode, redisUp, resp>>

\* res, err := rl.Allow(c.Request.Context(), key, int64(cost))
AllowCall(t) ==
    /\ pc[t] = "counted"
    /\ LET app == TBApply(cfg, state, loc[t].key, loc[t].cost, clock)
       IN /\ state' = app.st
          /\ loc' = [loc EXCEPT ![t] = [@ EXCEPT !.now = clock, !.allowed = app.res.Allowed,
                                                 !.res = app.res]]
    /\ pc' = [pc EXCEPT ![t] = "called"]
    /\ UNCHANGED <<ctxDone, ctlVars, cfg, clock, windows, last, granted, mu, redisVars, gwVars>>

\* handleAllow from there: the decision is counted and the response written
AllowRespond(t, late) ==
    /\ pc[t] = "called"
    /\ LET res == loc[t].res
       IN /\ metrics' = CountDecision(metrics, res.Allowed)
          /\ resp' = IF res.Allowed
                     THEN [op |-> "allow", status |-> 200, allowed |-> TRUE,
                           remaining |-> res.Remaining, limit |-> res.Limit,
                           reset_time |-> Unix(res.ResetTime), retry_after_seconds |-> 0,
                           error |-> "", storeUp |-> redisUp]
                     ELSE [op |-> "allow", status |-> 429, allowed |-> FALSE,
                           remaining |-> res.Remaining, limit |-> res.Limit,
                           reset_time |-> Unix(res.ResetTime),
                           retry_after_seconds |->
                               RetryAfterUntil(res.ResetTime, loc[t].now, late),
                           error |-> "rate limit exceeded", storeUp |-> redisUp]
    /\ pc' = [pc EXCEPT ![t] = "idle"]
    /\ loc' = [loc EXCEPT ![t] = NoLocals]
    /\ UNCHANGED <<ctxDone, ctlVars, cfg, clock, state, windows, last, granted, mu, redisVars,
                   mode, redisUp, nreq, charged>>

\* handlePrometheusMetrics: the three counters are loaded one after another
NoScrape == [reqTotal |-> 0, reqAllowed |-> 0, reqDenied |-> 0]

LoadTotal ==
    /\ pc[Scraper] = "idle"
    /\ pc' = [pc EXCEPT ![Scraper] = "total"]
    /\ loc' = [loc EXCEPT ![Scraper] =
                  [NoLocals EXCEPT !.res = [NoScrape EXCEPT !.reqTotal = metrics.reqTotal]]]
    /\ UNCHANGED <<ctxDone, ctlVars, cfg, clock, state, windows, last, granted, mu, redisVars, gwVars>>

LoadAllowed ==
    /\ pc[Scraper] = "total"
    /\ pc' = [pc EXCEPT ![Scraper] = "allowed"]
    /\ loc' = [loc EXCEPT ![Scraper].res.reqAllowed = metrics.reqAllowed]
    /\ UNCHANGED <<ctxDone, ctlVars, cfg, clock, state, windows, last, granted, mu, redisVars, gwVars>>

LoadDenied ==
    /\ pc[Scraper] = "allowed"
    /\ pc' = [pc EXCEPT ![Scraper] = "idle"]
    /\ loc' = [loc EXCEPT ![Scraper] = NoLocals]
    /\ resp' = [op |-> "metrics", status |-> 200,
                reqTotal |-> loc[Scraper].res.reqTotal,
                reqAllowed |-> loc[Scraper].res.reqAllowed,
                reqDenied |-> metrics.reqDenied]
    /\ UNCHANGED <<ctxDone, ctlVars, cfg, clock, state, windows, last, granted, mu, redisVars,
                   mode, redisUp, metrics, nreq, charged>>

\* The requests sent at the same time: admitted, denied for its cost, and
\* rejected for its tenant, its api key and its cost
ConcRequests ==
    {BaseRequest,
     [BaseRequest EXCEPT !.cost = BigCost],
     [BaseRequest EXCEPT !.tenant = ""],
     [BaseRequest EXCEPT !.header = "", !.query = "bad-key"],
     [BaseRequest EXCEPT !.cost = <<"0">>]}

\* Requests served at the same time
NextGWConc ==
    \/ \E t \in GWHandlers, r \in ConcRequests :
          AllowCount(t, r.tenant, r.header, r.query, r.resource, r.cost)
    \/ \E t \in GWHandlers : AllowCall(t)
    \/ \E t \in GWHandlers, late \in BOOLEAN : AllowRespond(t, late)
    \/ \E r \in ConcRequests : handleQuota(r.tenant, r.header, r.query, r.resource)
    \/ handleHealth
    \/ LoadTotal
    \/ LoadAllowed
    \/ LoadDenied
    \/ GWTick

-----------------------------------------------------------------------------
(* The control plane (internal/control/server.go): the tenant registry the
   handlers keep in etcd *)

MaxCtlOps == 3

TenantIDs == {"t1", "t2"}

\* The order etcd returns keys in
TenantOrder == <<"t1", "t2">>

\* time.Time{}
ZeroTime == 0 - 1

\* A map or slice field of a decoded body: nil when the JSON has no such field
Nil == [isNil |-> TRUE, v |-> <<>>]
Some(v) == [isNil |-> FALSE, v |-> v]

\* The limits createTenant fills in when the body has none
DefaultLimits == Some(("default" :> [Limit |-> 100, Window |-> 60, Burst |-> 120]))

\* A TenantConfig decoded from a body that names nothing but the tenant
BlankBody(id) ==
    [TenantID |-> id, Limits |-> Nil, APIKeys |-> Nil, Algorithm |-> "", Mode |-> "",
     Created |-> ZeroTime, Updated |-> ZeroTime]

\* The bodies the clients send: each sets at most one field
Bodies(id) ==
    {BlankBody(id),
     [BlankBody(id) EXCEPT !.Limits = Some(("default" :> [Limit |-> 1, Window |-> 1, Burst |-> 1]))],
     [BlankBody(id) EXCEPT !.Limits = Some(("default" :> [Limit |-> MaxLimit, Window |-> 1, Burst |-> 1]))],
     [BlankBody(id) EXCEPT !.Limits = Some(EmptyMap)],
     [BlankBody(id) EXCEPT !.APIKeys = Some(<<"key1">>)],
     [BlankBody(id) EXCEPT !.APIKeys = Some(<<>>)],
     [BlankBody(id) EXCEPT !.Algorithm = "sliding_window"],
     [BlankBody(id) EXCEPT !.Mode = "strong"]}

\* json.Marshal(tenantConfig): the document stored in etcd
Marshal(tc) ==
    [kind |-> "json", tenant_id |-> tc.TenantID, limits |-> tc.Limits,
     api_keys |-> tc.APIKeys, algorithm |-> tc.Algorithm, mode |-> tc.Mode,
     created |-> tc.Created, updated |-> tc.Updated]

\* A value under the prefix that is not a JSON document of a TenantConfig
Garbage == [kind |-> "garbage"]

\* json.Unmarshal(value, &tenantConfig) returns no error
CanUnmarshal(doc) == doc.kind = "json"

\* json.Unmarshal(value, &tenantConfig)
Unmarshal(doc) ==
    [TenantID |-> doc.tenant_id, Limits |-> doc.limits, APIKeys |-> doc.api_keys,
     Algorithm |-> doc.algorithm, Mode |-> doc.mode,
     Created |-> doc.created, Updated |-> doc.updated]

\* fmt.Sprintf("/helios/tenants/%s", tenantID)
TenantKey(id) == "/helios/tenants/" \o id

\* s.etcd.Put(ctx, key, value)
EtcdPut(kv, key, value) == Put(kv, key, value)

\* mutant: the delete leaves the key in place
EtcdDeleteNothing(kv, key) == kv

\* s.etcd.Delete(ctx, key): a key that is not there is no error
EtcdDelete(kv, key) == [k \in DOMAIN kv \ {key} |-> kv[k]]

\* s.etcd.Get(ctx, key): resp.Kvs
EtcdGet(kv, key) == IF key \in DOMAIN kv THEN <<kv[key]>> ELSE <<>>

\* s.etcd.Get(ctx, prefix, clientv3.WithPrefix()): resp.Kvs, in key order
EtcdGetPrefix(kv) ==
    LET present(id) == TenantKey(id) \in DOMAIN kv
        ids == SelectSeq(TenantOrder, present)
    IN [i \in 1..Len(ids) |-> kv[TenantKey(ids[i])]]

NoCtl == [op |-> "none"]
NoBody == [error |-> TRUE]

\* The goroutines serving PUT requests at the same time
Handlers == {"h1", "h2"}

NoUpdate == [pc |-> "idle", id |-> "", updates |-> BlankBody(""),
             tenantConfig |-> BlankBody(""), status |-> 0]

RegistryIdle ==
    /\ etcd = EmptyMap
    /\ cresp = NoCtl
    /\ nctl = 0
    /\ upd = [h \in Handlers |-> NoUpdate]

\* The defaults createTenant sets for the fields the body left out
WithDefaults(tc) ==
    [tc EXCEPT !.Algorithm = IF tc.Algorithm = "" THEN "token_bucket" ELSE tc.Algorithm,
               !.Mode = IF tc.Mode = "" THEN "fast" ELSE tc.Mode,
               !.Limits = IF tc.Limits.isNil THEN DefaultLimits ELSE tc.Limits]

\* POST /api/v1/tenants
createTenant(bound, body) ==
    /\ nctl < MaxCtlOps
    /\ nctl' = nctl + 1
    /\ LET tenantConfig == WithDefaults([body EXCEPT !.Created = clock, !.Updated = clock])
           key == TenantKey(tenantConfig.TenantID)
       IN IF ~bound
          THEN /\ etcd' = etcd
               /\ cresp' = [op |-> "create", id |-> body.TenantID, patch |-> body,
                            before |-> etcd, now |-> clock, status |-> 400, body |-> NoBody]
          ELSE /\ etcd' = EtcdPut(etcd, key, Marshal(tenantConfig))
               /\ cresp' = [op |-> "create", id |-> body.TenantID, patch |-> body,
                            before |-> etcd, now |-> clock, status |-> 201, body |-> tenantConfig]
    /\ UNCHANGED <<upd, ctxDone, cfg, clock, state, windows, last, granted, thrVars, redisVars, gwVars>>

\* GET /api/v1/tenants/:tenant_id: the status and the body
GetResult(kv, tenantID) ==
    LET Kvs == EtcdGet(kv, TenantKey(tenantID))
    IN IF Len(Kvs) = 0 THEN [status |-> 404, body |-> NoBody]
       ELSE IF ~CanUnmarshal(Kvs[1]) THEN [status |-> 500, body |-> NoBody]
       ELSE [status |-> 200, body |-> Unmarshal(Kvs[1])]

getTenant(tenantID) ==
    /\ nctl < MaxCtlOps
    /\ nctl' = nctl + 1
    /\ etcd' = etcd
    /\ cresp' = [op |-> "get", id |-> tenantID, patch |-> BlankBody(tenantID),
                 before |-> etcd, now |-> clock, status |-> GetResult(etcd, tenantID).status,
                 body |-> GetResult(etcd, tenantID).body]
    /\ UNCHANGED <<upd, ctxDone, cfg, clock, state, windows, last, granted, thrVars, redisVars, gwVars>>

\* The fields updateTenant takes from the body
ApplyUpdates(tenantConfig, updates, now) ==
    [tenantConfig EXCEPT
        !.Limits = IF ~updates.Limits.isNil THEN updates.Limits ELSE @,
        !.APIKeys = IF ~updates.APIKeys.isNil THEN updates.APIKeys ELSE @,
        !.Algorithm = IF updates.Algorithm # "" THEN updates.Algorithm ELSE @,
        !.Mode = IF updates.Mode # "" THEN updates.Mode ELSE @,
        !.Updated = now]

\* PUT /api/v1/tenants/:tenant_id
updateTenant(tenantID, bound, updates) ==
    /\ nctl < MaxCtlOps
    /\ nctl' = nctl + 1
    /\ LET key == TenantKey(tenantID)
           Kvs == EtcdGet(etcd, key)
           answer(status, body) ==
               [op |-> "update", id |-> tenantID, patch |-> updates, before |-> etcd, now |-> clock,
                status |-> status, body |-> body]
       IN IF ~bound
          THEN etcd' = etcd /\ cresp' = answer(400, NoBody)
          ELSE IF Len(Kvs) = 0
          THEN etcd' = etcd /\ cresp' = answer(404, NoBody)
          ELSE IF ~CanUnmarshal(Kvs[1])
          THEN etcd' = etcd /\ cresp' = answer(500, NoBody)
          ELSE LET tenantConfig == ApplyUpdates(Unmarshal(Kvs[1]), updates, clock)
               IN /\ etcd' = EtcdPut(etcd, key, Marshal(tenantConfig))
                  /\ cresp' = answer(200, tenantConfig)
    /\ UNCHANGED <<upd, ctxDone, cfg, clock, state, windows, last, granted, thrVars, redisVars, gwVars>>

\* updateTenant up to the answer of s.etcd.Get: the body is bound, the record
\* is read and parsed; the handler answers 400, 404 or 500 or holds the record
UpdateGet(h, tenantID, bound, updates) ==
    /\ upd[h].pc = "idle"
    /\ LET key == TenantKey(tenantID)
           Kvs == EtcdGet(etcd, key)
           answer(status) ==
               [pc |-> "done", id |-> tenantID, updates |-> updates,
                tenantConfig |-> BlankBody(""), status |-> status]
       IN upd' = [upd EXCEPT ![h] =
              IF ~bound THEN answer(400)
              ELSE IF Len(Kvs) = 0 THEN answer(404)
              ELSE IF ~CanUnmarshal(Kvs[1]) THEN answer(500)
              ELSE [pc |-> "got", id |-> tenantID, updates |-> updates,
                    tenantConfig |-> Unmarshal(Kvs[1]), status |-> 0]]
    /\ UNCHANGED <<etcd, cresp, nctl, ctxDone, cfg, clock, state, windows, last, granted,
                   thrVars, redisVars, gwVars>>

\* updateTenant from there: the fields of the body are applied to the record
\* read and the result is written with s.etcd.Put
UpdatePut(h) ==
    /\ upd[h].pc = "got"
    /\ LET tenantConfig == ApplyUpdates(upd[h].tenantConfig, upd[h].updates, clock)
       IN /\ etcd' = EtcdPut(etcd, TenantKey(upd[h].id), Marshal(tenantConfig))
          /\ upd' = [upd EXCEPT ![h] = [@ EXCEPT !.pc = "done", !.status = 200,
                                                 !.tenantConfig = tenantConfig]]
    /\ UNCHANGED <<cresp, nctl, ctxDone, cfg, clock, state, windows, last, granted,
                   thrVars, redisVars, gwVars>>

\* DELETE /api/v1/tenants/:tenant_id
deleteTenant(tenantID) ==
    /\ nctl < MaxCtlOps
    /\ nctl' = nctl + 1
    /\ etcd' = EtcdDelete(etcd, TenantKey(tenantID))
    /\ cresp' = [op |-> "delete", id |-> tenantID, patch |-> BlankBody(tenantID),
                 before |-> etcd, now |-> clock, status |-> 204, body |-> NoBody]
    /\ UNCHANGED <<upd, ctxDone, cfg, clock, state, windows, last, granted, thrVars, redisVars, gwVars>>

\* The records listTenants collects: the values that parse, in key order
ListResult(kv) ==
    LET Kvs == EtcdGetPrefix(kv)
        parsed == SelectSeq(Kvs, CanUnmarshal)
    IN [i \in 1..Len(parsed) |-> Unmarshal(parsed[i])]

\* GET /api/v1/tenants
listTenants ==
    /\ nctl < MaxCtlOps
    /\ nctl' = nctl + 1
    /\ etcd' = etcd
    /\ cresp' = [op |-> "list", id |-> "", patch |-> BlankBody(""), before |-> etcd, now |-> clock,
                 status |-> 200,
                 body |-> [tenants |-> ListResult(etcd), count |-> Len(ListResult(etcd))]]
    /\ UNCHANGED <<upd, ctxDone, cfg, clock, state, windows, last, granted, thrVars, redisVars, gwVars>>

\* Another client of etcd leaves a value under the prefix that does not parse;
\* no response of the control plane describes the store after it
EtcdForeignPut(tenantID) ==
    /\ nctl < MaxCtlOps
    /\ nctl' = nctl + 1
    /\ etcd' = EtcdPut(etcd, TenantKey(tenantID), Garbage)
    /\ cresp' = NoCtl
    /\ UNCHANGED <<upd, ctxDone, cfg, clock, state, windows, last, granted, thrVars, redisVars, gwVars>>

\* Time passes between the requests
CtlTick ==
    /\ clock < TicksPerSec
    /\ clock' = clock + 1
    /\ UNCHANGED <<ctxDone, cfg, state, windows, last, granted, thrVars, redisVars, gwVars, ctlVars>>

NextRegistry ==
    \/ \E id \in TenantIDs : \E body \in Bodies(id) : createTenant(TRUE, body)
    \/ createTenant(FALSE, BlankBody(""))
    \/ \E id \in TenantIDs : getTenant(id)
    \/ \E id \in TenantIDs : \E body \in Bodies("") : updateTenant(id, TRUE, body)
    \/ \E id \in TenantIDs : updateTenant(id, FALSE, BlankBody(""))
    \/ \E id \in TenantIDs : deleteTenant(id)
    \/ listTenants
    \/ \E id \in TenantIDs : EtcdForeignPut(id)
    \/ CtlTick

-----------------------------------------------------------------------------
(* The in-memory engine built by NewLocalManager from a Config *)

Init ==
    /\ cfg \in Configs
    /\ clock = 0
    /\ state = EmptyMap
    /\ windows = EmptyMap
    /\ last = NoCall
    /\ granted = NoHistory
    /\ ThreadsIdle
    /\ RedisIdle
    /\ GatewayIdle
    /\ RegistryIdle
    /\ ctxDone = FALSE

Next ==
    \/ \E k \in Keys, c \in Costs : TBAllow(k, c)
    \/ \E k \in Keys : TBGetQuota(k)
    \/ \E k \in Keys, c \in Costs : SWAllow(k, c)
    \/ \E k \in Keys : SWGetQuota(k)
    \/ Tick

Spec == Init /\ [][Next]_vars

-----------------------------------------------------------------------------
(* One decision key, with the history of its admits *)

InitOneKey ==
    /\ cfg \in Configs
    /\ clock = 0
    /\ state = EmptyMap
    /\ windows = EmptyMap
    /\ last = NoCall
    /\ granted = EmptyHistory
    /\ ThreadsIdle
    /\ RedisIdle
    /\ GatewayIdle
    /\ RegistryIdle
    /\ ctxDone = FALSE

NextOneKey ==
    \/ \E c \in Costs : TBAllow("k1", c)
    \/ TBGetQuota("k1")
    \/ \E c \in Costs : SWAllow("k1", c)
    \/ SWGetQuota("k1")
    \/ Tick

SpecOneKey == InitOneKey /\ [][NextOneKey]_vars

\* The process runs the Redis-backed limiters beside the in-memory engine that
\* NewServer builds
ServerConfig ==
    [Limit |-> DefaultLimit, Burst |-> DefaultLimit, Window |-> DefaultWindowSec,
     Algorithm |-> AlgoTokenBucket]

InitRedis ==
    /\ cfg = ServerConfig
    /\ clock = 0
    /\ state = EmptyMap
    /\ windows = EmptyMap
    /\ last = NoCall
    /\ granted = NoHistory
    /\ ThreadsIdle
    /\ RedisIdle
    /\ GatewayIdle
    /\ RegistryIdle
    /\ ctxDone = FALSE

\* The engine called directly, with a cost of either sign
AnyCosts == (0 - 1)..(MaxLimit + 1)

NextAnyCost ==
    \/ \E c \in AnyCosts : TBAllow("k1", c)
    \/ \E c \in AnyCosts : SWAllow("k1", c)
    \/ Tick

SpecAnyCost == Init /\ [][NextAnyCost]_vars

\* The context of the callers is cancelled: the client of the request has gone
CancelCtx ==
    /\ ~ctxDone
    /\ ctxDone' = TRUE
    /\ UNCHANGED <<ctlVars, cfg, clock, state, windows, last, granted, thrVars, redisVars, gwVars>>

\* The engine called with a context that may be cancelled before the call
NextCancel ==
    \/ \E k \in Keys, c \in Costs : TBAllow(k, c)
    \/ \E k \in Keys, c \in Costs : SWAllow(k, c)
    \/ CancelCtx
    \/ Tick

SpecCancel == Init /\ [][NextCancel]_vars

\* NewServer: the in-memory limiter of the demo policy in either consistency
\* mode
InitGW ==
    /\ cfg = ServerConfig
    /\ clock = 0
    /\ state = EmptyMap
    /\ windows = EmptyMap
    /\ last = NoCall
    /\ granted = NoHistory
    /\ ThreadsIdle
    /\ RedisIdle
    /\ mode \in {"fast", "strong"}
    /\ redisUp = TRUE
    /\ resp = NoResponse
    /\ metrics = NoMetrics
    /\ nreq = 0
    /\ charged = EmptyMap
    /\ RegistryIdle
    /\ ctxDone = FALSE

\* The gateway serving HTTP requests
SpecGW == InitGW /\ [][NextGW]_vars

\* The gateway serving several requests at the same time
SpecGWConc == InitGW /\ [][NextGWConc]_vars

\* Several goroutines, each calling Allow once on the same key of one engine
SpecConc == Init /\ [][NextConc]_vars

\* Callers of the Redis-backed limiters handed out by the RedisManager
SpecRedis == InitRedis /\ [][NextRedis]_vars

\* Concurrent callers of one Redis-backed limiter
SpecStrong == InitRedis /\ [][NextStrong]_vars

\* Concurrent callers of one Redis-backed sliding-window limiter
SpecRedisSW == InitRedis /\ [][NextRedisSW]_vars

\* One thread calling the manager
NextManager ==
    \/ \E t \in ManagerTenants, r \in ManagerResources : GetLimiter(t, r)
    \/ \E t \in ManagerTenants, r \in ManagerResources, config \in RedisConfigs \cup RedisSWConfigs :
           ManagerUpdateConfig(t, r, config)

\* A goroutine inside a call of the manager: the call, its arguments, the
\* statement it is at and what it holds
InCall(op, key, config, at, engine) ==
    [pc |-> at, op |-> op, key |-> key, config |-> config, engine |-> engine]

\* The map accesses a goroutine's next statement makes
Pending(c) ==
    CASE rc[c].pc = "lookup" -> {<<"limiters", "read">>}
      [] rc[c].pc = "config" -> {<<"configs", "read">>} \cup
                                (IF rc[c].key \in DOMAIN configs THEN {}
                                 ELSE {<<"configs", "write">>})
      [] rc[c].pc = "store" -> {<<"limiters", "write">>}
      [] rc[c].pc = "putcfg" -> {<<"configs", "write">>}
      [] rc[c].pc = "drop" -> {<<"limiters", "write">>}
      [] OTHER -> {}

\* Two goroutines are about to access the same map, one of them writing, with
\* nothing ordering the accesses: the manager has no lock
Conflict(c, d) ==
    \E x \in Pending(c), y \in Pending(d) : x[1] = y[1] /\ "write" \in {x[2], y[2]}

\* The runtime detects the concurrent map access and ends the process
\* ("fatal error: concurrent map read and map write")
Fatal(c) ==
    /\ \E d \in Callers \ {c} : Conflict(c, d)
    /\ rc' = [d \in Callers |-> [rc[d] EXCEPT !.pc = "fatal"]]
    /\ UNCHANGED <<ctxDone, ctlVars, cfg, clock, state, windows, last, granted, thrVars, gwVars,
                   rstore, limiters, configs, nextId, ncalls, evals, rlast>>

\* A goroutine calls GetLimiter(tenantID, resource)
CallGetLimiter(c, tenantID, resource) ==
    /\ rc[c].pc = "idle"
    /\ rc' = [rc EXCEPT ![c] = InCall("GetLimiter", ManagerKey(tenantID, resource),
                                       RedisDefaultConfig, "lookup", NoEngine)]
    /\ UNCHANGED <<ctxDone, ctlVars, cfg, clock, state, windows, last, granted, thrVars, gwVars,
                   rstore, limiters, configs, nextId, ncalls, evals, rlast>>

\* limiter, exists := rm.limiters[key]; if exists { return limiter, nil }
LookupLimiter(c) ==
    /\ rc[c].pc = "lookup"
    /\ rc' = [rc EXCEPT ![c] =
                 IF rc[c].key \in DOMAIN limiters
                 THEN [@ EXCEPT !.pc = "done", !.engine = limiters[rc[c].key]]
                 ELSE [@ EXCEPT !.pc = "config"]]
    /\ UNCHANGED <<ctxDone, ctlVars, cfg, clock, state, windows, last, granted, thrVars, gwVars,
                   rstore, limiters, configs, nextId, ncalls, evals, rlast>>

\* config, exists := rm.configs[key], the default config stored if there is
\* none, and the limiter constructed from it
BuildLimiter(c) ==
    /\ rc[c].pc = "config"
    /\ nextId' = nextId + 1
    /\ configs' = IF rc[c].key \in DOMAIN configs THEN configs
                  ELSE Put(configs, rc[c].key, RedisDefaultConfig)
    /\ rc' = [rc EXCEPT ![c] =
                 [@ EXCEPT !.pc = "store",
                           !.engine = [id |-> nextId + 1,
                                       config |-> GetLimiterConfig(configs, rc[c].key)]]]
    /\ UNCHANGED <<ctxDone, ctlVars, cfg, clock, state, windows, last, granted, thrVars, gwVars,
                   rstore, limiters, ncalls, evals, rlast>>

\* rm.limiters[key] = limiter; return limiter, nil
StoreLimiter(c) ==
    /\ rc[c].pc = "store"
    /\ limiters' = Put(limiters, rc[c].key, rc[c].engine)
    /\ rc' = [rc EXCEPT ![c].pc = "done"]
    /\ UNCHANGED <<ctxDone, ctlVars, cfg, clock, state, windows, last, granted, thrVars, gwVars,
                   rstore, configs, nextId, ncalls, evals, rlast>>

\* A goroutine calls UpdateConfig(tenantID, resource, config)
CallUpdateConfig(c, tenantID, resource, config) ==
    /\ rc[c].pc = "idle"
    /\ rc' = [rc EXCEPT ![c] = InCall("UpdateConfig", ManagerKey(tenantID, resource),
                                       config, "putcfg", NoEngine)]
    /\ UNCHANGED <<ctxDone, ctlVars, cfg, clock, state, windows, last, granted, thrVars, gwVars,
                   rstore, limiters, configs, nextId, ncalls, evals, rlast>>

\* rm.configs[key] = config
PutConfig(c) ==
    /\ rc[c].pc = "putcfg"
    /\ configs' = Put(configs, rc[c].key, rc[c].config)
    /\ rc' = [rc EXCEPT ![c].pc = "drop"]
    /\ UNCHANGED <<ctxDone, ctlVars, cfg, clock, state, windows, last, granted, thrVars, gwVars,
                   rstore, limiters, nextId, ncalls, evals, rlast>>

\* delete(rm.limiters, key); return nil
DropLimiter(c) ==
    /\ rc[c].pc = "drop"
    /\ limiters' = [k \in DOMAIN limiters \ {rc[c].key} |-> limiters[k]]
    /\ rc' = [rc EXCEPT ![c].pc = "done"]
    /\ UNCHANGED <<ctxDone, ctlVars, cfg, clock, state, windows, last, granted, thrVars, gwVars,
                   rstore, configs, nextId, ncalls, evals, rlast>>

\* Several goroutines, each making one call of the manager
NextManagerConc ==
    \/ \E c \in Callers, t \in ManagerTenants : CallGetLimiter(c, t, "default")
    \/ \E c \in Callers, t \in ManagerTenants, config \in RedisConfigs :
           CallUpdateConfig(c, t, "default", config)
    \/ \E c \in Callers : LookupLimiter(c)
    \/ \E c \in Callers : BuildLimiter(c)
    \/ \E c \in Callers : StoreLimiter(c)
    \/ \E c \in Callers : PutConfig(c)
    \/ \E c \in Callers : DropLimiter(c)
    \/ \E c \in Callers : Fatal(c)

\* The RedisManager called by several goroutines
SpecManagerConc == InitRedis /\ [][NextManagerConc]_vars

\* The RedisManager called by one thread
SpecManager == InitRedis /\ [][NextManager]_vars

\* The control plane serving HTTP requests
SpecRegistry == InitRedis /\ [][NextRegistry]_vars

\* A tenant is created while no update is in flight or answered
SeedTenant(body) ==
    /\ \A h \in Handlers : upd[h].pc = "idle"
    /\ createTenant(TRUE, body)

\* The tenant the concurrent requests are about
ConcTenants == {"t1"}

\* Two updateTenant handlers and deleteTenant served at the same time
NextRegistryConc ==
    \/ \E id \in ConcTenants : \E body \in Bodies(id) : SeedTenant(body)
    \/ \E h \in Handlers, id \in ConcTenants, bound \in BOOLEAN :
           \E updates \in Bodies(id) : UpdateGet(h, id, bound, updates)
    \/ \E h \in Handlers : UpdatePut(h)
    \/ \E id \in ConcTenants : deleteTenant(id)
    \/ \E id \in ConcTenants : EtcdForeignPut(id)

SpecRegistryConc == InitRedis /\ [][NextRegistryConc]_vars

\* The policies both token buckets are built from: limit > 0, window > 0 and
\* burst >= limit
EquivConfigs ==
    {c \in [Limit : {1, MaxLimit}, Burst : 1..(2 * MaxLimit + 1), Window : {1},
            Algorithm : {AlgoTokenBucket}] :
        c.Burst >= c.Limit /\ c.Burst <= 2 * c.Limit + 1}

\* The Result RedisTokenBucket.Allow builds from the script's reply, as far as
\* the decision and the remaining go
RedisDecision(reply, limit) ==
    [Allowed |-> reply[1], Remaining |-> reply[2], Limit |-> limit]

\* One admit, with one timestamp, handed to the in-memory token bucket and to
\* the token-bucket script of the shared store
AdmitBoth(key, cost) ==
    /\ LET now == clock
           app == TBApply(cfg, state, key, cost, now)
           run == TokenBucketScript(rstore, key, now, cfg.Limit, cfg.Window, cost,
                                    cfg.Burst, clock)
       IN /\ state' = app.st
          /\ last' = [op |-> "Allow", key |-> key, cost |-> cost, now |-> now,
                      fresh |-> key \notin DOMAIN state, res |-> app.res]
          /\ rstore' = Put(rstore, key, [tokens |-> run.hash.tokens,
                                         last_refill |-> run.hash.last_refill,
                                         expireAt |-> run.hash.expireAt,
                                         by |-> 0, limit |-> cfg.Limit])
          /\ rlast' = [op |-> "allow", key |-> key, cost |-> cost, now |-> now,
                       fresh |-> ~Live(rstore, key, clock),
                       res |-> RedisDecision(run.reply, cfg.Limit)]
    /\ UNCHANGED <<ctxDone, ctlVars, cfg, clock, windows, granted, thrVars, gwVars,
                   limiters, configs, nextId, rc, ncalls, evals>>

InitEquiv ==
    /\ cfg \in EquivConfigs
    /\ clock = 0
    /\ state = EmptyMap
    /\ windows = EmptyMap
    /\ last = NoCall
    /\ granted = NoHistory
    /\ ThreadsIdle
    /\ RedisIdle
    /\ GatewayIdle
    /\ RegistryIdle
    /\ ctxDone = FALSE

\* The costs of the admits: up to one more than the largest burst
EquivCosts == 0..(2 * MaxLimit + 2)

NextEquiv ==
    \/ \E c \in EquivCosts : AdmitBoth("k1", c)
    \/ Tick

\* The two token buckets fed the same admits
SpecEquiv == InitEquiv /\ [][NextEquiv]_vars

-----------------------------------------------------------------------------
(* Properties of the in-memory engines *)

Cap == EffBurst(cfg) * TokScale

IsTB == cfg.Algorithm = AlgoTokenBucket
IsSW == cfg.Algorithm = AlgoSlidingWindow

\* C1: after any sequence of Allow and GetQuota calls with cost >= 0, at
\* non-decreasing times, every tracked bucket has 0 <= tokens <= B, B the
\* engine's effective burst ceiling.
C1_TokensWithinBurst ==
    \A k \in DOMAIN state : 0 <= state[k].tokens /\ state[k].tokens <= Cap

\* One bucket emptied by an Allow, another refilled up to the ceiling after
\* time has passed.
C1_Witness ==
    /\ IsTB /\ clock > 0 /\ last.op = "Allow" /\ last.res.Allowed
    /\ last.cost > 0 /\ state[last.key].tokens = 0
    /\ \E k \in DOMAIN state :
          /\ k # last.key /\ state[k].tokens = Cap
          /\ state[k].lastRefill > 0

RECURSIVE SumAt(_, _, _)
\* the total cost admitted at the times s..e
SumAt(g, s, e) == IF s > e THEN 0 ELSE At(g, s) + SumAt(g, s + 1, e)

\* C2: for the token bucket and one decision key, the total cost G admitted
\* in any interval [s, e] is at most burst + ceil((e - s) / window) * limit
\* (burst being the ceiling the engine uses: cfg.Burst, or the limit when
\* the burst is unset).
C2_BudgetConservation ==
    (IsTB /\ granted.on) =>
        \A s \in 0..clock : \A e \in s..clock :
            SumAt(granted, s, e) <=
                EffBurst(cfg) + CeilDiv(e - s, WinTicks(cfg)) * EffLimit(cfg)

\* The bound is met with equality over an interval longer than a window: the
\* whole burst at the start, then every refilled token.
C2_Witness ==
    /\ IsTB /\ granted.on /\ clock > WinTicks(cfg)
    /\ At(granted, 0) = EffBurst(cfg)
    /\ SumAt(granted, 0, clock) =
           EffBurst(cfg) + CeilDiv(clock, WinTicks(cfg)) * EffLimit(cfg)

\* C3: for the sliding window and one decision key, the total cost admitted
\* in (t - window, t] is at most limit for every t, and the number of stored
\* events is at most limit right after every successful admit.
C3_HardCeiling ==
    (IsSW /\ granted.on) =>
        /\ \A t \in 0..clock :
              SumAt(granted, maxInt64(0, t - WinTicks(cfg) + 1), t) <= EffLimit(cfg)
        /\ (last.op = "Allow" /\ last.res.Allowed) =>
              Len(windows[last.key]) <= EffLimit(cfg)

\* The window is filled a second time, after the first events have expired.
C3_Witness ==
    /\ IsSW /\ granted.on /\ clock >= WinTicks(cfg)
    /\ last.op = "Allow" /\ last.res.Allowed /\ last.cost > 0 /\ last.now = clock
    /\ Len(windows[last.key]) = EffLimit(cfg)
    /\ At(granted, 0) = EffLimit(cfg)
    /\ SumAt(granted, 1, clock) = EffLimit(cfg)

\* The state of every key but the one the step's call names is left as it was.
OtherKeysKept ==
    IF last'.op = "none"
    THEN state' = state /\ windows' = windows
    ELSE /\ \A k \in DOMAIN state :
              k # last'.key => (k \in DOMAIN state' /\ state'[k] = state[k])
         /\ \A k \in DOMAIN windows :
              k # last'.key => (k \in DOMAIN windows' /\ windows'[k] = windows[k])
         /\ \A k \in (DOMAIN state' \ DOMAIN state) \cup (DOMAIN windows' \ DOMAIN windows) :
              k = last'.key

FirstAdmit(l) == l.op = "Allow" /\ l.cost = 1 /\ l.fresh

\* C4 (as amended): an Allow or GetQuota on key K1 leaves the stored state of
\* every other key unchanged, and the first cost-1 admit on a fresh key is
\* allowed with remaining = B - 1, B being the engine's ceiling: the
\* effective burst for the token bucket (limit - 1 only when burst = limit),
\* the limit for the sliding window.
C4_Isolation ==
    [][/\ OtherKeysKept
       /\ FirstAdmit(last') =>
             /\ last'.res.Allowed
             /\ last'.res.Remaining =
                    (IF IsTB THEN EffBurst(cfg) ELSE EffLimit(cfg)) - 1]_vars

\* C4 as stated: ... the first cost-1 admit on a fresh key is allowed with
\* remaining = limit - 1.
C4_Original ==
    [][/\ OtherKeysKept
       /\ FirstAdmit(last') =>
             /\ last'.res.Allowed
             /\ last'.res.Remaining = EffLimit(cfg) - 1]_vars

\* Key A is exhausted, and then the first cost-1 admit on key B is made.
C4_Witness ==
    /\ FirstAdmit(last)
    /\ \/ /\ IsTB
          /\ \E a \in DOMAIN state : a # last.key /\ state[a].tokens = 0
          /\ state[last.key].tokens = Cap - TokScale
       \/ /\ IsSW
          /\ \E a \in DOMAIN windows : a # last.key /\ Len(windows[a]) = EffLimit(cfg)
          /\ Len(windows[last.key]) = 1

\* C8: every Result of an engine's Allow with positive cost has
\* retry_after_s > 0 when denied and retry_after_s = 0 when allowed.
C8_RetryAfterSign ==
    (last.op = "Allow" /\ last.cost > 0) =>
        /\ last.res.Allowed => last.res.RetryAfterSeconds = 0
        /\ ~last.res.Allowed => last.res.RetryAfterSeconds > 0

-----------------------------------------------------------------------------
(* Linearizability of the in-memory engines *)

AllDone == \A t \in Threads : pc[t] = "done"

\* the orders in which the goroutines' calls may have taken effect
Orders == {o \in [1..Cardinality(Threads) -> Threads] : \A i, j \in DOMAIN o : o[i] = o[j] => i = j}

RECURSIVE SerialRun(_, _, _, _)
\* The calls of the goroutines o[i..], made one after the other on the maps
\* st and ws, each at the time its goroutine read: the final maps and the
\* Result of each call.
SerialRun(o, i, st, ws) ==
    IF i > Len(o) THEN [st |-> st, ws |-> ws, res |-> <<>>]
    ELSE LET t == o[i]
             tb == TBApply(cfg, st, loc[t].key, loc[t].cost, loc[t].now)
             sw == SWApply(cfg, ws, loc[t].key, loc[t].cost, loc[t].now)
             rest == IF IsTB THEN SerialRun(o, i + 1, tb.st, ws)
                     ELSE SerialRun(o, i + 1, st, sw.ws)
         IN [rest EXCEPT !.res = (t :> (IF IsTB THEN tb.res ELSE sw.res)) @@ rest.res]

Linearizable ==
    \E o \in Orders :
        LET run == SerialRun(o, 1, EmptyMap, EmptyMap)
        IN /\ state = run.st
           /\ windows = run.ws
           /\ \A t \in Threads : loc[t].res = run.res[t]

SameInstantUnitCost ==
    \A t, u \in Threads : loc[t].cost = 1 /\ loc[t].key = loc[u].key /\ loc[t].now = loc[u].now

NumAllowed == Cardinality({t \in Threads : loc[t].res.Allowed})

\* C7: concurrent Allow calls on one key of an in-memory engine behave as
\* some serial order of the calls; tokens never go below 0; and N concurrent
\* cost-1 admits made at one instant on a fresh key admit exactly min(N, B),
\* B the engine's ceiling (the burst of the token bucket, the limit of the
\* sliding window).
C7_Linearizable ==
    /\ \A k \in DOMAIN state : state[k].tokens >= 0
    /\ \A k \in DOMAIN windows : Len(windows[k]) <= EffLimit(cfg)
    /\ AllDone =>
          /\ Linearizable
          /\ SameInstantUnitCost =>
                NumAllowed = Min(Cardinality(Threads),
                                 IF IsTB THEN EffBurst(cfg) ELSE EffLimit(cfg))

\* More goroutines than tokens, all at one instant: some are denied.
C7_Witness ==
    /\ AllDone /\ SameInstantUnitCost
    /\ NumAllowed = EffLimit(cfg)
    /\ NumAllowed < Cardinality(Threads)
    /\ NumAllowed > 1

-----------------------------------------------------------------------------
(* The Redis-backed limiters *)

\* Every script the store has run at this instant was sent by a caller that
\* read its clock at this instant and asks for one token under the same policy
\* limit = burst = L, and the first of them found no bucket under the key
SameInstantBatch ==
    /\ evals # <<>>
    /\ evals[1].fresh
    /\ \A i \in DOMAIN evals :
          /\ evals[i].now = clock
          /\ evals[i].cost = 1
          /\ evals[i].key = evals[1].key
          /\ evals[i].limit = evals[1].limit
          /\ evals[i].burst = evals[i].limit

NumAdmitted == Cardinality({i \in DOMAIN evals : evals[i].allowed})

\* C6: N callers that invoke the shared-store token-bucket admit for the same
\* fresh key at the same instant with cost 1 under limit = burst = L are
\* admitted exactly min(N, L) times, in every interleaving; with N >= L exactly
\* L are admitted and N - L denied
C6_StrongAtomicity ==
    SameInstantBatch => NumAdmitted = Min(Len(evals), evals[1].limit)

C6_Witness ==
    /\ SameInstantBatch
    /\ Len(evals) = Cardinality(Callers)
    /\ evals[1].limit > 1
    /\ NumAdmitted = evals[1].limit
    /\ NumAdmitted < Len(evals)

\* C10: the first cost-1 admit a new limiter makes on a decision key whose
\* bucket the replaced limiter left with 0 tokens under a smaller limit is
\* allowed, and its remaining is the new ceiling less one
C10_FreshAfterUpdate ==
    (/\ rlast.op = "allow"
     /\ rlast.cost = 1
     /\ rlast.saw.old
     /\ rlast.saw.tokens = 0
     /\ rlast.saw.limit < rlast.engine.config.Limit)
    => /\ rlast.res.Allowed
       /\ rlast.res.Remaining = rlast.engine.config.BurstLimit - 1

-----------------------------------------------------------------------------
(* The gateway *)

\* C5: no bucket is charged by requests of two different (tenant, resource,
\* api key) triples
C5_KeyInjective == \A k \in DOMAIN charged : Cardinality(charged[k]) <= 1

\* C9: in strong mode an admit request that passes validation while the store
\* is unreachable is answered with a server error and not with allowed = true
C9_FailClosed ==
    (/\ resp.op = "allow"
     /\ resp.status \notin {400, 401}
     /\ mode = "strong"
     /\ ~resp.storeUp)
    => /\ resp.status >= 500
       /\ ~resp.allowed

-----------------------------------------------------------------------------
(* The engine of the local manager as one value, and what a caller can see of it *)

Engine == [st |-> state, ws |-> windows]

\* Allow of whichever limiter NewLocalManager built
Apply(c, e, key, cost, now) ==
    IF c.Algorithm = AlgoSlidingWindow
    THEN LET a == SWApply(c, e.ws, key, cost, now)
         IN [e |-> [st |-> e.st, ws |-> a.ws], res |-> a.res]
    ELSE LET a == TBApply(c, e.st, key, cost, now)
         IN [e |-> [st |-> a.st, ws |-> e.ws], res |-> a.res]

\* The budget of a key at time t: the tokens after the refill, or the requests
\* left by the purge, that any call made at t starts from
ViewOf(c, e, key, t) ==
    IF c.Algorithm = AlgoSlidingWindow
    THEN Purge(c, GetOrCreateWindow(e.ws, key), t)
    ELSE Refill(c, GetOrCreate(c, e.st, key, t), t)

\* Engines e1 and e2 answer every admit made from now on alike, and leave the
\* admitted key with the same budget
SameFuture(c, e1, e2, from) ==
    \A k \in Keys, t \in from..MaxTime :
        /\ ViewOf(c, e1, k, t) = ViewOf(c, e2, k, t)
        /\ \A cost \in Costs :
              LET a1 == Apply(c, e1, k, cost, t)
                  a2 == Apply(c, e2, k, cost, t)
              IN /\ a1.res = a2.res
                 /\ ViewOf(c, a1.e, k, t) = ViewOf(c, a2.e, k, t)

\* C11: an Allow with cost 0 is allowed in every reachable state; the remaining
\* it reports is the remaining the previous call on the key reported at the
\* same instant and the key's budget after it; and every later admit has the
\* result it would have had without the probe
C11_ZeroCostProbe ==
    /\ (last.op = "Allow" /\ last.cost = 0) => last.res.Allowed
    /\ \A k \in Keys :
          LET probe == Apply(cfg, Engine, k, 0, clock)
          IN /\ probe.res.Allowed
             /\ (last.op # "none" /\ last.key = k /\ last.now = clock)
                    => probe.res.Remaining = last.res.Remaining
             /\ SameFuture(cfg, Engine, probe.e, clock)

\* A probe of an exhausted token bucket, and of a full sliding window
C11_Witness ==
    /\ last.op = "Allow"
    /\ last.cost = 0
    /\ last.res.Allowed
    /\ last.res.Remaining = 0
    /\ ~last.fresh

\* GetQuota of whichever limiter NewLocalManager built
QuotaApply(c, e, key, now) ==
    IF c.Algorithm = AlgoSlidingWindow
    THEN LET a == SWQuotaApply(c, e.ws, key, now)
         IN [e |-> [st |-> e.st, ws |-> a.ws], res |-> a.res]
    ELSE LET a == TBQuotaApply(c, e.st, key, now)
         IN [e |-> [st |-> a.st, ws |-> e.ws], res |-> a.res]

\* C12: a GetQuota made right after another GetQuota on the same key, at the
\* same instant, returns the same remaining and reset time; and after a
\* GetQuota every later admit has the result it would have had without it
C12_QuotaIdempotent ==
    /\ (last.op = "GetQuota" /\ last.now = clock) =>
          LET again == QuotaApply(cfg, Engine, last.key, clock).res
          IN /\ again.Remaining = last.res.Remaining
             /\ again.ResetTime = last.res.ResetTime
    /\ \A k \in Keys :
          LET q1 == QuotaApply(cfg, Engine, k, clock)
              q2 == QuotaApply(cfg, q1.e, k, clock)
          IN /\ q2.res = q1.res
             /\ SameFuture(cfg, Engine, q1.e, clock)

\* A GetQuota on a key whose budget is partly used and partly refilled
C12_Witness ==
    /\ last.op = "GetQuota"
    /\ last.now = clock
    /\ ~last.fresh
    /\ last.res.Remaining < last.res.Limit
    /\ \E t \in DOMAIN granted.at : t < clock

-----------------------------------------------------------------------------
(* Sequences of admits on one key *)

\* The cost admitted at the instant of the last call before that call was made
PriorAt == At(granted, last.now) - (IF last.res.Allowed THEN last.cost ELSE 0)

\* The last call is a cost-1 Allow of a token bucket with B = limit
UnitAdmit ==
    /\ IsTB
    /\ EffBurst(cfg) = EffLimit(cfg)
    /\ last.op = "Allow"
    /\ last.cost = 1

\* C13: on a fresh key of a token bucket with B = limit, a cost-1 admit made
\* when i - 1 tokens have been admitted at the same instant is allowed with
\* remaining = B - i as long as i <= B, and denied once B are admitted; and the
\* only admit made a full window after the key was exhausted at one instant is
\* allowed with remaining = limit - 1
C13_ExhaustAndRecover ==
    /\ (UnitAdmit /\ DOMAIN granted.at \subseteq {last.now}) =>
          /\ last.res.Allowed <=> PriorAt < EffLimit(cfg)
          /\ last.res.Allowed => last.res.Remaining = EffLimit(cfg) - (PriorAt + 1)
    /\ \A t0 \in 0..MaxTime :
          (/\ UnitAdmit
           /\ last.now = t0 + WinTicks(cfg)
           /\ DOMAIN granted.at \subseteq {t0, last.now}
           /\ At(granted, t0) = EffLimit(cfg)
           /\ PriorAt = 0)
          => /\ last.res.Allowed
             /\ last.res.Remaining = EffLimit(cfg) - 1

\* Limit admits at one instant, and one admit a window later
C13_Witness ==
    /\ UnitAdmit
    /\ EffLimit(cfg) = MaxLimit
    /\ \E t0 \in 0..MaxTime :
          /\ last.now = t0 + WinTicks(cfg)
          /\ DOMAIN granted.at = {t0, last.now}
          /\ At(granted, t0) = EffLimit(cfg)
    /\ last.res.Allowed
    /\ last.res.Remaining = EffLimit(cfg) - 1

\* The admit that follows the last of the B admits of one instant
C13_WitnessDenied ==
    /\ UnitAdmit
    /\ EffLimit(cfg) = MaxLimit
    /\ DOMAIN granted.at = {last.now}
    /\ At(granted, last.now) = EffLimit(cfg)
    /\ ~last.res.Allowed

-----------------------------------------------------------------------------
(* Results of the token bucket *)

\* C14: a token-bucket Allow with cost > B is denied and takes no token; on a
\* fresh key with B = limit and cost = B + 1 it reports remaining = B and a
\* retry-after of at least one second
C14_OverCostDenied ==
    (IsTB /\ last.op = "Allow" /\ last.cost > EffBurst(cfg)) =>
        /\ ~last.res.Allowed
        /\ last.now = clock => last.res.Remaining = TruncDiv(state[last.key].tokens, TokScale)
        /\ (last.fresh /\ EffBurst(cfg) = EffLimit(cfg) /\ last.cost = EffBurst(cfg) + 1) =>
              /\ last.res.Remaining = EffBurst(cfg)
              /\ last.res.RetryAfterSeconds >= 1

\* C15: on every denied token-bucket Allow the retry-after is
\* ceil((cost - tokens) / r) seconds, r = limit / window
C15_RetryAfterCeil ==
    (IsTB /\ last.op = "Allow" /\ ~last.res.Allowed) =>
        last.res.RetryAfterSeconds =
            CeilDiv((last.cost * TokScale - state[last.key].tokens) * EffWindow(cfg),
                    EffLimit(cfg) * TokScale)

\* C16: every token-bucket Result, of Allow and of GetQuota, reports
\* remaining = floor(tokens) and the reset time now + ceil((B - tokens) / r)
\* seconds, which is never before now
C16_ResetAtFullRefill ==
    (IsTB /\ last.op \in {"Allow", "GetQuota"}) =>
        LET tokens == state[last.key].tokens
        IN /\ last.res.Remaining = tokens \div TokScale
           /\ last.res.ResetTime =
                 last.now + CeilDiv((Cap - tokens) * EffWindow(cfg), EffLimit(cfg) * TokScale)
                            * TicksPerSec
           /\ last.res.ResetTime >= last.now

\* C17: the capacity of the token bucket is max(burst, limit): a new key
\* starts with that many tokens, and a key left idle refills up to it
C17_CapacityMaxBurstLimit ==
    IsTB =>
        LET B == maxInt64(cfg.Burst, EffLimit(cfg))
        IN /\ (last.op = "Allow" /\ last.fresh /\ last.cost <= B) =>
                 /\ last.res.Allowed
                 /\ last.res.Remaining = B - last.cost
           /\ \A k \in DOMAIN state :
                 Refill(cfg, state[k], state[k].lastRefill + B * WinTicks(cfg)).tokens
                     = B * TokScale

\* C18: an Allow with negative cost is not allowed, and leaves the key with no
\* more budget than its ceiling
C18_NegativeCostRejected ==
    (last.op = "Allow" /\ last.cost < 0) =>
        /\ ~last.res.Allowed
        /\ IsTB => state[last.key].tokens <= Cap
        /\ last.res.Remaining <= (IF IsTB THEN EffBurst(cfg) ELSE EffLimit(cfg))


-----------------------------------------------------------------------------
(* C19: the shared-store sliding window keeps the hard ceiling: every allowed
   admit raises the number of recorded events by exactly its cost, and the
   cost granted to one key by admits that carry the same timestamp (which all
   lie in one window) is at most limit *)

\* The admits of the present instant that the script allowed for its own instant
SameStampAdmits(k) ==
    {i \in 1..Len(evals) : evals[i].key = k /\ evals[i].allowed /\ evals[i].now = clock}

RECURSIVE SumCost(_)
SumCost(S) == IF S = {} THEN 0
              ELSE LET i == CHOOSE x \in S : TRUE IN evals[i].cost + SumCost(S \ {i})

C19_SharedWindowCeiling ==
    /\ \A i \in 1..Len(evals) :
           evals[i].allowed => evals[i].after = evals[i].count + evals[i].cost
    /\ \A i \in 1..Len(evals) : SumCost(SameStampAdmits(evals[i].key)) <= evals[i].limit

\* The counting half alone
C19_CountsEveryUnit ==
    \A i \in 1..Len(evals) :
        evals[i].allowed => evals[i].after = evals[i].count + evals[i].cost

\* The ceiling half alone
C19_CeilingOnly ==
    \A i \in 1..Len(evals) : SumCost(SameStampAdmits(evals[i].key)) <= evals[i].limit


-----------------------------------------------------------------------------
(* C20: in the shared-store token-bucket script, whatever the interleaving of
   callers that each read their own clock, the stored last_refill never goes
   back, the refill never lowers the tokens, and the stored tokens stay
   within [0, burst] *)

\* The stored tokens of every key lie in [0, burst] of the pair's limiter
C20_TokensInRange ==
    \A k \in DOMAIN rstore : \A mk \in DOMAIN limiters :
        /\ rstore[k].tokens >= 0
        /\ rstore[k].tokens <= limiters[mk].config.BurstLimit * TokScale

\* A run of the script on a live key leaves last_refill no earlier than it was
C20_LastRefillMonotone ==
    \A c \in Callers :
        (rc[c].pc = "eval" /\ rc'[c].pc = "ret" /\ Live(rstore, rc[c].key, clock))
            => rstore'[rc[c].key].last_refill >= rstore[rc[c].key].last_refill

\* The tokens the script holds after its refill, before it charges the cost, are
\* no fewer than the stored ones
C20_RefillNeverLowers ==
    \A c \in Callers :
        (rc[c].pc = "eval" /\ rc'[c].pc = "ret" /\ Live(rstore, rc[c].key, clock))
            => rstore'[rc[c].key].tokens
                   + (IF rc'[c].ret[1] THEN rc[c].cost * TokScale ELSE 0)
               >= rstore[rc[c].key].tokens

C20_ScriptInvariants ==
    /\ []C20_TokensInRange
    /\ [][C20_LastRefillMonotone /\ C20_RefillNeverLowers]_vars

\* Each part on its own
C20_OnlyLastRefill == [][C20_LastRefillMonotone]_vars
C20_OnlyRefill == [][C20_RefillNeverLowers]_vars


-----------------------------------------------------------------------------
(* C21: every shared-store admit, token bucket or sliding window, allowed or
   denied, leaves the key it touched with a time to live of at least twice
   the window *)

\* The keys the scripts ran on at the present instant
TouchedKeys == {evals[i].key : i \in 1..Len(evals)}

\* The time to live a stored key has left
TTL(store, key, t) == store[key].expireAt - t

C21_TouchedKeyTTL ==
    \A k \in TouchedKeys : \A mk \in DOMAIN limiters :
        k \in DOMAIN rstore
            => TTL(rstore, k, clock) >= 2 * limiters[mk].config.WindowSeconds * TicksPerSec


-----------------------------------------------------------------------------
(* Properties of the tenant registry *)

\* The record stored for a tenant in kv, when there is one that parses
HasRecord(kv, id) == TenantKey(id) \in DOMAIN kv /\ CanUnmarshal(kv[TenantKey(id)])
Record(kv, id) == Unmarshal(kv[TenantKey(id)])

\* C22: a create for a tenant that already has a stored record fails and
\* leaves that record, created_at included, as it was
C22_CreateRejectsExisting ==
    (cresp.op = "create" /\ cresp.status # 400 /\ HasRecord(cresp.before, cresp.id))
        => /\ cresp.status >= 400
           /\ etcd = cresp.before


\* A field of a patch that is there and has something in it
NonEmpty(field) == ~field.isNil /\ field.v # <<>>

\* The record an update is to leave: the non-empty fields of the patch over
\* the stored record, updated_at bumped, everything else as it was
Patched(old, patch, now) ==
    [TenantID |-> old.TenantID,
     Limits |-> IF NonEmpty(patch.Limits) THEN patch.Limits ELSE old.Limits,
     APIKeys |-> IF NonEmpty(patch.APIKeys) THEN patch.APIKeys ELSE old.APIKeys,
     Algorithm |-> IF patch.Algorithm # "" THEN patch.Algorithm ELSE old.Algorithm,
     Mode |-> IF patch.Mode # "" THEN patch.Mode ELSE old.Mode,
     Created |-> old.Created,
     Updated |-> now]

\* An update of a tenant with no stored value answers NotFound and writes nothing
C23_UpdateMissing ==
    (cresp.op = "update" /\ cresp.status # 400 /\ TenantKey(cresp.id) \notin DOMAIN cresp.before)
        => cresp.status = 404 /\ etcd = cresp.before

\* An update keeps tenant_id and created_at, bumps updated_at, and leaves the
\* other tenants' values alone
C23_UpdateFrame ==
    (cresp.op = "update" /\ cresp.status # 400 /\ HasRecord(cresp.before, cresp.id))
        => /\ cresp.status = 200
           /\ HasRecord(etcd, cresp.id)
           /\ Record(etcd, cresp.id).TenantID = Record(cresp.before, cresp.id).TenantID
           /\ Record(etcd, cresp.id).Created = Record(cresp.before, cresp.id).Created
           /\ Record(etcd, cresp.id).Updated = cresp.now
           /\ \A k \in DOMAIN cresp.before \ {TenantKey(cresp.id)} :
                  k \in DOMAIN etcd /\ etcd[k] = cresp.before[k]

\* C23: an update applies exactly the non-empty fields of the patch, bumps
\* updated_at and leaves every other field of the stored record as it was,
\* tenant_id and created_at included; an update of a tenant with no stored
\* record answers NotFound and writes nothing
C23_UpdateAppliesPatch ==
    /\ C23_UpdateMissing
    /\ C23_UpdateFrame
    /\ (cresp.op = "update" /\ cresp.status # 400 /\ HasRecord(cresp.before, cresp.id))
           => Record(etcd, cresp.id) = Patched(Record(cresp.before, cresp.id), cresp.patch, cresp.now)


\* C24: delete is idempotent: it succeeds whether or not the tenant is stored,
\* a delete of a tenant that is not stored changes nothing, a second delete
\* would leave the store as the first left it, and after delete(T) get(T)
\* answers NotFound
C24_DeleteIdempotent ==
    cresp.op = "delete"
        => /\ cresp.status = 204
           /\ TenantKey(cresp.id) \notin DOMAIN etcd
           /\ \A k \in DOMAIN cresp.before \ {TenantKey(cresp.id)} :
                  k \in DOMAIN etcd /\ etcd[k] = cresp.before[k]
           /\ TenantKey(cresp.id) \notin DOMAIN cresp.before => etcd = cresp.before
           /\ EtcdDelete(etcd, TenantKey(cresp.id)) = etcd
           /\ GetResult(etcd, cresp.id).status = 404

\* A tenant that was stored has been deleted while another tenant is stored
C24_Witness ==
    /\ cresp.op = "delete"
    /\ HasRecord(cresp.before, cresp.id)
    /\ etcd # EmptyMap

\* A delete of a tenant that is not stored (a second delete among them)
C24_WitnessMissing ==
    /\ cresp.op = "delete"
    /\ TenantKey(cresp.id) \notin DOMAIN cresp.before
    /\ nctl > 1


\* burst >= limit > 0 and window > 0
ValidLimit(l) == l.Burst >= l.Limit /\ l.Limit > 0 /\ l.Window > 0

\* Every Limit Policy of a record passes the check
ValidRecord(tc) ==
    tc.Limits.isNil \/ \A resource \in DOMAIN tc.Limits.v : ValidLimit(tc.Limits.v[resource])

\* C25: every Limit Policy the handlers have stored, after any sequence of
\* creates and updates, has burst >= limit > 0 and window > 0
C25_StoredPoliciesValid ==
    \A id \in TenantIDs : HasRecord(etcd, id) => ValidRecord(Record(etcd, id))


\* The records a sequence holds
Range(s) == {s[i] : i \in 1..Len(s)}

\* The list answers with every stored value that parses, skips the others, and
\* counts what it returns
C26_ListSkipsUnparsed ==
    cresp.op = "list"
        => /\ cresp.status = 200
           /\ cresp.body.count = Len(cresp.body.tenants)
           /\ Range(cresp.body.tenants)
                  = {Record(cresp.before, id) : id \in {t \in TenantIDs : HasRecord(cresp.before, t)}}

\* C26: the list answers with exactly the stored records that pass the
\* invariant checks, skipping the others instead of failing, and its count is
\* the number of records it returns
C26_ListValidRecords ==
    cresp.op = "list"
        => /\ cresp.status = 200
           /\ cresp.body.count = Len(cresp.body.tenants)
           /\ Range(cresp.body.tenants)
                  = {Record(cresp.before, id) :
                         id \in {t \in TenantIDs : /\ HasRecord(cresp.before, t)
                                                   /\ ValidRecord(Record(cresp.before, t))}}


-----------------------------------------------------------------------------
(* Properties of the gateway's request checks *)

\* The characters of the tenants the clients send
Chars(tenant) ==
    CASE tenant = "" -> <<>>
      [] tenant = "a" -> <<"a">>
      [] tenant = "a:b" -> <<"a", ":", "b">>

\* [A-Za-z0-9_-]
TenantAlphabet ==
    {"A", "B", "C", "D", "E", "F", "G", "H", "I", "J", "K", "L", "M",
     "N", "O", "P", "Q", "R", "S", "T", "U", "V", "W", "X", "Y", "Z",
     "a", "b", "c", "d", "e", "f", "g", "h", "i", "j", "k", "l", "m",
     "n", "o", "p", "q", "r", "s", "t", "u", "v", "w", "x", "y", "z",
     "0", "1", "2", "3", "4", "5", "6", "7", "8", "9", "_", "-"}

\* ^[A-Za-z0-9_-]{1,64}$
MatchesTenantPattern(tenant) ==
    /\ Len(Chars(tenant)) >= 1
    /\ Len(Chars(tenant)) <= 64
    /\ \A i \in DOMAIN Chars(tenant) : Chars(tenant)[i] \in TenantAlphabet

\* The (tenant, resource, api key) triples of the requests that reached the limiter
ReachedLimiter == UNION {charged[k] : k \in DOMAIN charged}

\* C27: no request whose tenant is missing or fails ^[A-Za-z0-9_-]{1,64}$
\* reaches the limiter: it is answered InvalidRequest before any limiter state
\* is read or changed
C27_TenantPatternChecked ==
    \A triple \in ReachedLimiter : MatchesTenantPattern(triple[1])

\* A request with no tenant never reaches the limiter
C27_MissingTenantRejected ==
    \A triple \in ReachedLimiter : triple[1] # ""


\* Only requests with a permitted key reach the limiter
C28_OnlyPermittedReach ==
    \A triple \in ReachedLimiter : triple[3] \in ValidKeys

\* A request with no api_key is answered Unauthenticated (401)
C28_MissingKeyUnauthenticated ==
    (resp.op \in {"allow", "quota"} /\ resp.status >= 400 /\ resp.error = "API key required")
        => resp.status = 401

\* C28: a request with no api_key is answered Unauthenticated, a request whose
\* api_key is present but not permitted is answered Forbidden (403), a distinct
\* outcome, and only requests with a permitted key reach the limiter
C28_CredentialOutcome ==
    /\ C28_OnlyPermittedReach
    /\ C28_MissingKeyUnauthenticated
    /\ (resp.op \in {"allow", "quota"} /\ resp.status >= 400 /\ resp.error = "Invalid API key")
           => resp.status = 403


-----------------------------------------------------------------------------
(* C29: an admit whose context is already cancelled when it is called leaves
   the bucket state (tokens, last refill, event list) as it was *)

C29_StateUntouched == ctxDone => (state' = state /\ windows' = windows)

C29_CancelledAdmitNoMutation == [][C29_StateUntouched]_vars


-----------------------------------------------------------------------------
(* C30: each in-memory engine keeps the number of decision keys it tracks at or
   below a fixed bound, evicting the least recently used ones; taken for a
   population of keys one larger than the bound, the engine never tracks all
   of the keys it has been called with *)

\* A bound on the tracked keys that the population of keys exceeds by one
TrackedBound == Cardinality(Keys) - 1

C30_TrackedKeysBounded ==
    /\ Cardinality(DOMAIN state) <= TrackedBound
    /\ Cardinality(DOMAIN windows) <= TrackedBound

\* No call removes a key from either engine's map
C30_KeysNeverLeave ==
    [][DOMAIN state \subseteq DOMAIN state' /\ DOMAIN windows \subseteq DOMAIN windows']_vars


-----------------------------------------------------------------------------
(* C31: the node's readiness turns to not ready when the shared-store ping
   fails in strong mode, and while it is not ready the node serves no admit *)

\* A health check made in strong mode while the ping fails reports unhealthy
C31_PingFailureUnhealthy ==
    (resp.op = "health" /\ mode = "strong" /\ ~resp.storeUp) => resp.health = "unhealthy"

\* An admit is decided (allowed or denied by the limiter) only while the
\* readiness the node would report is healthy
C31_NoAdmitWhileNotReady ==
    (resp.op = "allow" /\ resp.status \in {200, 429})
        => HealthStatus(mode, resp.storeUp) = "healthy"

C31_ReadinessGatesAdmits ==
    /\ C31_PingFailureUnhealthy
    /\ C31_NoAdmitWhileNotReady


-----------------------------------------------------------------------------
(* C32: fed the same (timestamp, cost) admits on one key under one policy, the
   in-memory token bucket and the shared-store script give the same decision
   and the same remaining at every step *)

C32_BackendsAgree ==
    last.op = "Allow"
        => /\ last.res.Allowed = rlast.res.Allowed
           /\ last.res.Remaining = rlast.res.Remaining

\* The same, for the policies whose burst two windows of refill reach
C32_AgreeSmallBurst ==
    (last.op = "Allow" /\ cfg.Burst <= 2 * cfg.Limit)
        => /\ last.res.Allowed = rlast.res.Allowed
           /\ last.res.Remaining = rlast.res.Remaining


\* ---------------------------------------------------------------------------
\* C33: the engine cache of the RedisManager.

\* The engine the next GetLimiter call for a key would return
NextEngine(mk) == GetLimiterApply(limiters, configs, nextId, mk).engine

\* C33 (first part): a GetLimiter call that finds a cached engine returns that
\* engine and leaves the cache as it was; one that misses returns an engine no
\* earlier call returned, built from the stored config, and leaves every
\* other pair's engine in place.
C33_GetLimiterCached ==
    rlast.op = "GetLimiter"
    => /\ \A k \in DOMAIN rlast.before : k \in DOMAIN limiters /\ limiters[k] = rlast.before[k]
       /\ limiters[rlast.key] = rlast.engine
       /\ rlast.key \in DOMAIN rlast.before => rlast.engine = rlast.before[rlast.key]
       /\ rlast.key \notin DOMAIN rlast.before
          => /\ rlast.engine.id > rlast.ids
             /\ \A k \in DOMAIN rlast.before : rlast.before[k].id # rlast.engine.id
             /\ rlast.engine.config = configs[rlast.key]
       /\ NextEngine(rlast.key) = rlast.engine

MinOf(reqs) == CHOOSE t \in Range(reqs) : \A u \in Range(reqs) : t <= u

\* A denied sliding-window Allow leaves in the window of its key the stored
\* requests later than now - window, in their order, and nothing else
C34_DeniedAddsNoEvent ==
    [][(IsSW /\ last' # last /\ last'.op = "Allow" /\ ~last'.res.Allowed)
       => windows'[last'.key] = Purge(cfg, GetOrCreateWindow(windows, last'.key), last'.now)]_vars

\* The remaining count and the reset time of a denied sliding-window Allow
C34_DeniedRemainingAndReset ==
    (IsSW /\ last.op = "Allow" /\ ~last.res.Allowed) =>
        LET E == windows[last.key]
        IN /\ last.res.Remaining = maxInt64(0, EffLimit(cfg) - Len(E))
           /\ last.res.ResetTime = IF E # <<>> THEN MinOf(E) + WinTicks(cfg)
                                   ELSE last.now + WinTicks(cfg)

\* C34: a denied sliding-window Allow reports remaining = max(0, limit - |E|),
\* reset_at = min(E) + window for a non-empty E and now + window otherwise,
\* and retry_after_s = ceil(reset_at - now) seconds
C34_DeniedWindowResult ==
    (IsSW /\ last.op = "Allow" /\ ~last.res.Allowed) =>
        /\ C34_DeniedRemainingAndReset
        /\ last.res.RetryAfterSeconds = CeilDiv(last.res.ResetTime - last.now, TicksPerSec)


\* ---------------------------------------------------------------------------
\* C35: refill accounting across denied token-bucket admits.

\* A denied admit that follows a denied admit of the same key
DeniedAfterDenied(l, ln) ==
    /\ ln # l
    /\ l.op \in {"Allow", "allow"} /\ ~l.res.Allowed
    /\ ln.op \in {"Allow", "allow"} /\ ~ln.res.Allowed
    /\ ln.key = l.key

\* min(B, tokens(t0) + (t1 - t0) * r), in units of 1 / TokScale token
TokensAfter(tokens, t0, t1) ==
    Min(cfg.Burst * TokScale,
        tokens + ((t1 - t0) * cfg.Limit * TokScale) \div (cfg.Window * TicksPerSec))

\* In the in-memory engine a denied admit at t1 that follows a denied admit
\* at t0 stores min(B, tokens(t0) + (t1 - t0) * r) and lastRefill = t1
C35_LocalRefillAcrossDenials ==
    [][DeniedAfterDenied(last, last')
       => /\ state'[last'.key].tokens = TokensAfter(state[last.key].tokens, last.now, last'.now)
          /\ state'[last'.key].lastRefill = last'.now]_vars

\* C35: in the in-memory engine and in the shared-store script, a denied
\* admit at t1 that follows a denied admit at t0 <= t1 stores
\* tokens = min(B, tokens(t0) + (t1 - t0) * r) and last_refill = t1
C35_RefillAcrossDenials ==
    [][/\ DeniedAfterDenied(last, last')
          => /\ state'[last'.key].tokens =
                    TokensAfter(state[last.key].tokens, last.now, last'.now)
             /\ state'[last'.key].lastRefill = last'.now
       /\ DeniedAfterDenied(rlast, rlast')
          => /\ rstore'[rlast'.key].tokens =
                    TokensAfter(rstore[rlast.key].tokens, rlast.now, rlast'.now)
             /\ rstore'[rlast'.key].last_refill = rlast'.now]_vars


\* ---------------------------------------------------------------------------
\* C36, C37: updateTenant served concurrently with other requests.

\* The patches of two updates that touch disjoint fields
SetsOnlyLimits(u) ==
    NonEmpty(u.Limits) /\ u.APIKeys.isNil /\ u.Algorithm = "" /\ u.Mode = ""
SetsOnlyAPIKeys(u) ==
    NonEmpty(u.APIKeys) /\ u.Limits.isNil /\ u.Algorithm = "" /\ u.Mode = ""

\* Both updates of one tenant have been answered with 200, and since the
\* tenant was created no other request has written its record
BothUpdated(h1, h2) ==
    /\ h1 # h2
    /\ upd[h1].pc = "done" /\ upd[h1].status = 200
    /\ upd[h2].pc = "done" /\ upd[h2].status = 200
    /\ upd[h1].id = upd[h2].id
    /\ cresp.op = "create" /\ cresp.status = 201 /\ cresp.id = upd[h1].id

\* C36: when two updates of one tenant, one setting limits and the other
\* api_keys, have both completed, the stored record holds both changes,
\* however their reads and writes were interleaved
C36_NoLostUpdate ==
    \A h1, h2 \in Handlers :
        (BothUpdated(h1, h2) /\ SetsOnlyLimits(upd[h1].updates)
                             /\ SetsOnlyAPIKeys(upd[h2].updates))
        => /\ HasRecord(etcd, upd[h1].id)
           /\ Record(etcd, upd[h1].id).Limits = upd[h1].updates.Limits
           /\ Record(etcd, upd[h1].id).APIKeys = upd[h2].updates.APIKeys

\* The record two completed updates leave always exists and holds the change
\* of at least one of them
C36_OneUpdateSurvives ==
    \A h1, h2 \in Handlers :
        (BothUpdated(h1, h2) /\ SetsOnlyLimits(upd[h1].updates)
                             /\ SetsOnlyAPIKeys(upd[h2].updates))
        => /\ HasRecord(etcd, upd[h1].id)
           /\ \/ Record(etcd, upd[h1].id).Limits = upd[h1].updates.Limits
              \/ Record(etcd, upd[h1].id).APIKeys = upd[h2].updates.APIKeys

\* C37: once a delete of a tenant has completed, no create has followed and
\* no update is in flight, the tenant has no record
C37_DeleteIsFinal ==
    (/\ cresp.op = "delete" /\ cresp.status = 204
     /\ \A h \in Handlers : upd[h].pc \in {"idle", "done"})
    => TenantKey(cresp.id) \notin DOMAIN etcd

\* A delete that has just completed has removed the record
C37_DeleteRemoves ==
    [][(cresp'.op = "delete" /\ cresp' # cresp) => TenantKey(cresp'.id) \notin DOMAIN etcd']_vars


\* ---------------------------------------------------------------------------
\* C38: requests rejected during validation.

\* The response of a request rejected for its tenant, api key or cost
Rejected(r) == r.op \in {"allow", "quota"} /\ r.status \in {400, 401}

\* C38: a step that ends with the response of a rejected request has left
\* the limiter's buckets and windows as they were: no key was created and no
\* tokens, lastRefill or requests of a key changed
C38_RejectedLeavesLimiter ==
    [][Rejected(resp') => (state' = state /\ windows' = windows)]_vars

\* A request is rejected while the limiter holds a bucket
C38_Witness ==
    /\ Rejected(resp)
    /\ DOMAIN state # {}
    /\ nreq > 0


\* ---------------------------------------------------------------------------
\* C39: the counters of the gateway.

\* The admit requests counted in reqTotal whose decision is not counted yet
InFlight == {t \in GWHandlers : pc[t] \in {"counted", "called"}}

\* reqAllowed + reqDenied <= reqTotal, the difference being the admit
\* requests in flight: with none in flight the two sides are equal
C39_CountersBalance ==
    /\ metrics.reqAllowed + metrics.reqDenied <= metrics.reqTotal
    /\ metrics.reqTotal = metrics.reqAllowed + metrics.reqDenied + Cardinality(InFlight)

\* A step that changes a counter is an admit request passing validation,
\* which adds 1 to reqTotal alone, or an admit request whose decision has
\* been made, which adds 1 to reqAllowed if it was allowed and 1 to reqDenied
\* if it was not
C39_CountedOnce ==
    metrics' # metrics
    => \E t \in GWHandlers :
          \/ /\ pc[t] = "idle" /\ pc'[t] = "counted"
             /\ metrics' = [metrics EXCEPT !.reqTotal = @ + 1]
          \/ /\ pc[t] = "called" /\ pc'[t] = "idle"
             /\ loc[t].res.Allowed
             /\ metrics' = [metrics EXCEPT !.reqAllowed = @ + 1]
          \/ /\ pc[t] = "called" /\ pc'[t] = "idle"
             /\ ~loc[t].res.Allowed
             /\ metrics' = [metrics EXCEPT !.reqDenied = @ + 1]

\* C39: in every reachable state reqAllowed + reqDenied <= reqTotal, with
\* equality once no admit request is in flight; only admit requests that
\* pass validation change a counter, each adding 1 to reqTotal and 1 to
\* reqAllowed or reqDenied according to the decision of the engine
C39_GatewayCounters == []C39_CountersBalance /\ [][C39_CountedOnce]_vars

\* An allowed and a denied admit have completed, after a rejected request,
\* and none is in flight
C39_Witness ==
    /\ metrics.reqAllowed >= 1
    /\ metrics.reqDenied >= 1
    /\ InFlight = {}

\* Not a property of the gateway: the three loads of a scrape of /metrics are
\* separate, so the values one scrape reports can have allowed + denied > total
C39_ScrapeBalanced ==
    resp.op = "metrics" => resp.reqAllowed + resp.reqDenied <= resp.reqTotal


\* ---------------------------------------------------------------------------
\* C40: the RedisManager called by several goroutines.

\* No map of the manager is about to be written by one goroutine while
\* another is about to read or write it
C40_NoDataRace ==
    \A c, d \in Callers : c # d => ~Conflict(c, d)

\* GetLimiter calls for one pair that have returned, no UpdateConfig having
\* been called, returned the same engine
C40_SameEngine ==
    \A c, d \in Callers :
        (/\ rc[c].pc = "done" /\ rc[c].op = "GetLimiter"
         /\ rc[d].pc = "done" /\ rc[d].op = "GetLimiter"
         /\ rc[c].key = rc[d].key
         /\ \A u \in Callers : rc[u].pc # "idle" => rc[u].op = "GetLimiter")
        => rc[c].engine = rc[d].engine

\* C40: in every interleaving of GetLimiter and UpdateConfig calls the maps
\* of the manager are never read or written while another goroutine writes
\* them, and concurrent GetLimiter calls for one pair return the same engine
C40_ManagerConcurrencySafe == C40_NoDataRace /\ C40_SameEngine

====
